---- MODULE Spec2Model ----
(***************************************************************************)
(* The rune front end: Parser::new (the logos token rules of tokens.rs and *)
(* the re-classification of failed slices in parser/mod.rs) and the        *)
(* recursive-descent parser of parser/mod.rs.                              *)
(*                                                                         *)
(* Source text is a sequence of characters (one-character strings).  The   *)
(* cursor `current` is 0-based as in the code: the token under the cursor  *)
(* is tokens[current + 1].  Option<T> is a sequence of length at most 1.   *)
(***************************************************************************)
EXTENDS Integers, Sequences, FiniteSets, TLC

VARIABLES
    input,      \* the String handed to Parser::new
    span,       \* how far logos' error slice runs past an unmatched quote
    tokens,     \* Parser.tokens
    current,    \* Parser.current
    newOut,     \* what Parser::new returned
    parseOut,   \* what the last parse() returned
    calls,      \* number of parse() calls made on the parser
    earlier,    \* outcome of an earlier run on the same text, if one was made
    program,    \* the statements handed to CodeGen::compile_statements, if any
    variables,  \* CodeGen.variables
    compiled,   \* number of statements compile_statements has compiled
    compileOut  \* what compile_statements returned

\* the state of the code generator
codegen == <<program, variables, compiled, compileOut>>

vars == <<input, span, tokens, current, newOut, parseOut, calls, earlier, codegen>>

(***************************************************************************)
(* Characters                                                              *)
(***************************************************************************)
Quote == "\""
Backslash == "\\"
\* A letter outside ASCII (U+00E9): char::is_alphanumeric holds of it, the
\* identifier rule [a-zA-Z_][a-zA-Z0-9_]* does not match it.
EAcute == "U+00E9"

Digit == {"0", "1", "2", "3", "4", "5", "6", "7", "8", "9"}

AsciiLetter ==
    {"a", "b", "c", "d", "e", "f", "g", "h", "i", "j", "k", "l", "m",
     "n", "o", "p", "q", "r", "s", "t", "u", "v", "w", "x", "y", "z",
     "A", "B", "C", "D", "E", "F", "G", "H", "I", "J", "K", "L", "M",
     "N", "O", "P", "Q", "R", "S", "T", "U", "V", "W", "X", "Y", "Z"}

IdentStart == AsciiLetter \cup {"_"}
IdentChar == IdentStart \cup Digit

\* #[logos(skip r"[ \t\n\f]+")]
Whitespace == {" ", "\t", "\n", "\f"}

\* char::is_alphanumeric (Unicode Alphabetic or Numeric)
is_alphanumeric(c) == c \in AsciiLetter \cup Digit \cup {EAcute}

(***************************************************************************)
(* Tokens                                                                  *)
(***************************************************************************)
\* A token without payload
Tok(kind) == [k |-> kind, s |-> <<>>, b |-> FALSE]
\* Integer(i64), Float(f64), String(String), Identifier(String): the payload
\* is a character sequence (for numbers the canonical numeral of the value)
TokS(kind, chars) == [k |-> kind, s |-> chars, b |-> FALSE]
\* Boolean(bool)
TokB(value) == [k |-> "Boolean", s |-> <<>>, b |-> value]

\* #[token(...)] rules of one character
OneCharToken(c) ==
    CASE c = "+" -> <<Tok("Plus")>>
      [] c = "-" -> <<Tok("Minus")>>
      [] c = "*" -> <<Tok("Star")>>
      [] c = "/" -> <<Tok("Slash")>>
      [] c = "%" -> <<Tok("Percent")>>
      [] c = "=" -> <<Tok("Equals")>>
      [] c = ">" -> <<Tok("GreaterThan")>>
      [] c = "<" -> <<Tok("LessThan")>>
      [] c = "!" -> <<Tok("Bang")>>
      [] c = "(" -> <<Tok("LeftParen")>>
      [] c = ")" -> <<Tok("RightParen")>>
      [] c = "{" -> <<Tok("LeftBrace")>>
      [] c = "}" -> <<Tok("RightBrace")>>
      [] c = ";" -> <<Tok("Semicolon")>>
      [] OTHER -> <<>>

\* #[token(...)] rules of two characters
TwoCharToken(c, d) ==
    CASE c = "=" /\ d = "=" -> <<Tok("EqualsEquals")>>
      [] c = "!" /\ d = "=" -> <<Tok("NotEquals")>>
      [] c = ">" /\ d = "=" -> <<Tok("GreaterThanEquals")>>
      [] c = "<" /\ d = "=" -> <<Tok("LessThanEquals")>>
      [] c = "&" /\ d = "&" -> <<Tok("And")>>
      [] c = "|" /\ d = "|" -> <<Tok("Or")>>
      [] c = "-" /\ d = ">" -> <<Tok("Arrow")>>
      [] c = "=" /\ d = ">" -> <<Tok("BigArrow")>>
      [] OTHER -> <<>>

\* The keyword rules, which win over the identifier rule on the same slice
KeywordToken(word) ==
    CASE word = <<"l", "e", "t">> -> <<Tok("KeywordLet")>>
      [] word = <<"i", "f">> -> <<Tok("KeywordIf")>>
      [] word = <<"e", "l", "s", "e">> -> <<Tok("KeywordElse")>>
      [] word = <<"w", "h", "i", "l", "e">> -> <<Tok("KeywordWhile")>>
      [] word = <<"f", "o", "r">> -> <<Tok("KeywordFor")>>
      [] OTHER -> <<>>

\* Tokens the parser matches (Token::Colon, Token::KeywordPrint, Token::TypeI32
\* ...) whose rules live in parser/tokens.rs
ExtraCharToken(c) ==
    IF c = ":" THEN <<Tok("Colon")>> ELSE <<>>

ExtraKeywordToken(word) ==
    CASE word = <<"p", "r", "i", "n", "t">> -> <<Tok("KeywordPrint")>>
      [] word = <<"i", "3", "2">> -> <<Tok("TypeI32")>>
      [] word = <<"i", "6", "4">> -> <<Tok("TypeI64")>>
      [] word = <<"f", "3", "2">> -> <<Tok("TypeF32")>>
      [] word = <<"f", "6", "4">> -> <<Tok("TypeF64")>>
      [] word = <<"b", "o", "o", "l">> -> <<Tok("TypeBool")>>
      [] word = <<"S", "t", "r", "i", "n", "g">> -> <<Tok("TypeString")>>
      [] OTHER -> <<>>

\* #[regex(r"true|false", ...)]
BooleanToken(word) ==
    CASE word = <<"t", "r", "u", "e">> -> <<TokB(TRUE)>>
      [] word = <<"f", "a", "l", "s", "e">> -> <<TokB(FALSE)>>
      [] OTHER -> <<>>

(***************************************************************************)
(* Numerals.  An i64 or f64 payload is kept as the canonical numeral of    *)
(* its value, so that "007" and "7" give the same Integer token.           *)
(***************************************************************************)
DigitSeq == <<"0", "1", "2", "3", "4", "5", "6", "7", "8", "9">>
DigitVal(c) == (CHOOSE i \in 1..Len(DigitSeq) : DigitSeq[i] = c) - 1

\* i64::MAX = 9223372036854775807
I64MaxDigits ==
    <<"9", "2", "2", "3", "3", "7", "2", "0", "3", "6",
      "8", "5", "4", "7", "7", "5", "8", "0", "7">>

RECURSIVE StripLeadingZeros(_)
StripLeadingZeros(ds) ==
    IF Len(ds) > 1 /\ Head(ds) = "0" THEN StripLeadingZeros(Tail(ds)) ELSE ds

RECURSIVE StripTrailingZeros(_)
StripTrailingZeros(ds) ==
    IF Len(ds) > 0 /\ ds[Len(ds)] = "0"
    THEN StripTrailingZeros(SubSeq(ds, 1, Len(ds) - 1))
    ELSE ds

\* a <= b for numerals of the same length
RECURSIVE LeqDigits(_, _)
LeqDigits(a, b) ==
    IF Len(a) = 0 THEN TRUE
    ELSE IF DigitVal(Head(a)) < DigitVal(Head(b)) THEN TRUE
    ELSE IF DigitVal(Head(a)) > DigitVal(Head(b)) THEN FALSE
    ELSE LeqDigits(Tail(a), Tail(b))

AllDigits(ds) == Len(ds) > 0 /\ \A i \in 1..Len(ds) : ds[i] \in Digit

\* whether the value of an all-digit slice fits i64
FitsI64(ds) ==
    LET c == StripLeadingZeros(ds)
    IN  \/ Len(c) < Len(I64MaxDigits)
        \/ Len(c) = Len(I64MaxDigits) /\ LeqDigits(c, I64MaxDigits)

\* slice.parse::<i64>(): an optional sign, then digits, within range
\* (the slices that reach it carry no sign: "+" and "-" are tokens)
ParsesAsI64(slice) ==
    LET body == IF Len(slice) > 0 /\ Head(slice) \in {"+", "-"}
                THEN Tail(slice) ELSE slice
    IN  AllDigits(body) /\ FitsI64(body)

\* slice.parse::<f64>() on the decimal forms: an optional sign, digits with
\* at most one point and at least one digit (no failed slice holds an
\* exponent or the words inf/nan: a letter starts an identifier)
ParsesAsF64(slice) ==
    LET body == IF Len(slice) > 0 /\ Head(slice) \in {"+", "-"}
                THEN Tail(slice) ELSE slice
        points == {i \in 1..Len(body) : body[i] = "."}
    IN  /\ Len(body) > 0
        /\ \A i \in 1..Len(body) : body[i] \in Digit \cup {"."}
        /\ Cardinality(points) <= 1
        /\ \E i \in 1..Len(body) : body[i] \in Digit

\* the numeral of the f64 value of `int` "." `frac`
FloatNumeral(int, frac) ==
    StripLeadingZeros(int) \o <<".">> \o StripTrailingZeros(frac)

(***************************************************************************)
(* Scanning                                                                *)
(***************************************************************************)
\* first index >= p whose character is not in S (Len + 1 when there is none)
RECURSIVE ScanWhile(_, _, _)
ScanWhile(src, p, S) ==
    IF p <= Len(src) /\ src[p] \in S THEN ScanWhile(src, p + 1, S) ELSE p

EscapeChar == {"n", "r", "t", Quote, Backslash}

\* The body of r#""([^"\\]|\\[nrt"\\])*""# from index p (after the opening
\* quote): [ok |-> the closing quote was found, at |-> its index, or the
\* index at which the rule stopped matching]
RECURSIVE ScanString(_, _)
ScanString(src, p) ==
    IF p > Len(src) THEN [ok |-> FALSE, at |-> Len(src)]
    ELSE IF src[p] = Quote THEN [ok |-> TRUE, at |-> p]
    ELSE IF src[p] = Backslash
         THEN IF p + 1 <= Len(src) /\ src[p + 1] \in EscapeChar
              THEN ScanString(src, p + 2)
              ELSE [ok |-> FALSE, at |-> IF p + 1 <= Len(src) THEN p + 1 ELSE p]
    ELSE ScanString(src, p + 1)

\* str::replace(pat, rep): every non-overlapping match, left to right
RECURSIVE Replace(_, _, _)
Replace(s, pat, rep) ==
    IF Len(s) = 0 THEN <<>>
    ELSE IF Len(pat) <= Len(s) /\ SubSeq(s, 1, Len(pat)) = pat
         THEN rep \o Replace(SubSeq(s, Len(pat) + 1, Len(s)), pat, rep)
         ELSE <<Head(s)>> \o Replace(Tail(s), pat, rep)

\* the String rule's callback: the five replace calls, one after the other
Unescape(content) ==
    LET r1 == Replace(content, <<Backslash, "n">>, <<"\n">>)
        r2 == Replace(r1, <<Backslash, "r">>, <<"\r">>)
        r3 == Replace(r2, <<Backslash, "t">>, <<"\t">>)
        r4 == Replace(r3, <<Backslash, Quote>>, <<Quote>>)
    IN  Replace(r4, <<Backslash, Backslash>>, <<Backslash>>)

(***************************************************************************)
(* Token::lexer: one step of the maximal-munch lexer at index p (a         *)
(* non-whitespace character).  The result is                               *)
(*   [tok |-> <<token>> or <<>> (logos' Err), last |-> index of the last   *)
(*    character of the slice]                                              *)
(* An unmatched character gives an error slice of that one character.      *)
(* When the String rule stops matching after its opening quote, the error  *)
(* slice starts at the quote; how far logos extends it is not fixed by     *)
(* this repository, so it runs `sp` characters past the quote, at most to  *)
(* where the rule stopped.                                                 *)
(***************************************************************************)
Min(a, b) == IF a <= b THEN a ELSE b

LexNumber(src, p) ==
    LET e == ScanWhile(src, p, Digit)
        int == SubSeq(src, p, e - 1)
    IN  IF e + 1 <= Len(src) /\ src[e] = "." /\ src[e + 1] \in Digit
        THEN LET f == ScanWhile(src, e + 1, Digit)
             IN  [tok |-> <<TokS("Float", FloatNumeral(int, SubSeq(src, e + 1, f - 1)))>>,
                  last |-> f - 1]
        ELSE IF FitsI64(int)
             THEN [tok |-> <<TokS("Integer", StripLeadingZeros(int))>>, last |-> e - 1]
             ELSE [tok |-> <<>>, last |-> e - 1]

LexWord(src, p) ==
    LET e == ScanWhile(src, p, IdentChar)
        word == SubSeq(src, p, e - 1)
        kw == KeywordToken(word) \o ExtraKeywordToken(word) \o BooleanToken(word)
    IN  [tok |-> IF Len(kw) > 0 THEN <<kw[1]>> ELSE <<TokS("Identifier", word)>>,
         last |-> e - 1]

LexString(src, p, sp) ==
    LET r == ScanString(src, p + 1)
    IN  IF r.ok
        THEN [tok |-> <<TokS("String", Unescape(SubSeq(src, p + 1, r.at - 1)))>>,
              last |-> r.at]
        ELSE [tok |-> <<>>, last |-> Min(r.at, p + sp)]

LexSymbol(src, p) ==
    LET two == IF p + 1 <= Len(src) THEN TwoCharToken(src[p], src[p + 1]) ELSE <<>>
        one == OneCharToken(src[p]) \o ExtraCharToken(src[p])
    IN  IF Len(two) > 0 THEN [tok |-> two, last |-> p + 1]
        ELSE [tok |-> one, last |-> p]

LexOne(src, p, sp) ==
    IF src[p] \in Digit THEN LexNumber(src, p)
    ELSE IF src[p] \in IdentStart THEN LexWord(src, p)
    ELSE IF src[p] = Quote THEN LexString(src, p, sp)
    ELSE LexSymbol(src, p)

(***************************************************************************)
(* ParserError                                                             *)
(***************************************************************************)
NoError == [code |-> "None", a |-> "", b |-> "", c |-> "", tok |-> <<>>]
UnexpectedCharacter(ch) ==
    [code |-> "UnexpectedCharacter", a |-> ch, b |-> "", c |-> "", tok |-> <<>>]
\* UnexpectedToken(format!("{:?}", token)): the Debug text names the token
UnexpectedToken(token) ==
    [code |-> "UnexpectedToken", a |-> "", b |-> "", c |-> "", tok |-> <<token>>]
\* UnexpectedToken(format!("unknown type: {}", type_name))
UnknownType(token) ==
    [code |-> "UnexpectedToken", a |-> "unknown type: ", b |-> "", c |-> "", tok |-> <<token>>]
UnexpectedEndOfInput ==
    [code |-> "UnexpectedEndOfInput", a |-> "", b |-> "", c |-> "", tok |-> <<>>]
ExpectedToken(x) ==
    [code |-> "ExpectedToken", a |-> x, b |-> "", c |-> "", tok |-> <<>>]
ExpectedAfter(x, y) ==
    [code |-> "ExpectedAfter", a |-> x, b |-> y, c |-> "", tok |-> <<>>]
ExpectedAfterCustom(x, y, z) ==
    [code |-> "ExpectedAfterCustom", a |-> x, b |-> y, c |-> z, tok |-> <<>>]
InvalidAssignment(x) ==
    [code |-> "InvalidAssignment", a |-> x, b |-> "", c |-> "", tok |-> <<>>]

(***************************************************************************)
(* Parser::new                                                             *)
(***************************************************************************)
\* a mutant of Reclassify: a failed slice is not tried as a float
Reclassify_without_float(slice) ==
    IF ParsesAsI64(slice)
    THEN [st |-> "Ok", tok |-> <<TokS("Integer", StripLeadingZeros(slice))>>, err |-> NoError]
    ELSE IF Head(slice) = Quote /\ slice[Len(slice)] = Quote
    THEN IF Len(slice) - 1 < 1
         THEN [st |-> "Panic", tok |-> <<>>, err |-> NoError]
         ELSE [st |-> "Ok", tok |-> <<TokS("String", SubSeq(slice, 2, Len(slice) - 1))>>,
               err |-> NoError]
    ELSE IF slice = <<"t", "r", "u", "e">> \/ slice = <<"f", "a", "l", "s", "e">>
    THEN [st |-> "Ok", tok |-> <<TokB(slice = <<"t", "r", "u", "e">>)>>, err |-> NoError]
    ELSE IF \A i \in 1..Len(slice) : is_alphanumeric(slice[i]) \/ slice[i] = "_"
    THEN [st |-> "Ok", tok |-> <<TokS("Identifier", slice)>>, err |-> NoError]
    ELSE [st |-> "Err", tok |-> <<>>, err |-> UnexpectedCharacter(Head(slice))]

\* The Err(_) arm: the failed slice is classified again.
\*   [st |-> "Ok", tok |-> <<token>>] | [st |-> "Err", err] | [st |-> "Panic"]
Reclassify(slice) ==
    IF ParsesAsI64(slice)
    THEN [st |-> "Ok", tok |-> <<TokS("Integer", StripLeadingZeros(slice))>>, err |-> NoError]
    ELSE IF ParsesAsF64(slice)
    THEN [st |-> "Ok", tok |-> <<TokS("Float", FloatNumeral(slice, <<>>))>>, err |-> NoError]
    ELSE IF Head(slice) = Quote /\ slice[Len(slice)] = Quote
    THEN IF Len(slice) - 1 < 1
         \* slice[1..slice.len() - 1] with begin 1 > end 0
         THEN [st |-> "Panic", tok |-> <<>>, err |-> NoError]
         ELSE [st |-> "Ok", tok |-> <<TokS("String", SubSeq(slice, 2, Len(slice) - 1))>>,
               err |-> NoError]
    ELSE IF slice = <<"t", "r", "u", "e">> \/ slice = <<"f", "a", "l", "s", "e">>
    THEN [st |-> "Ok", tok |-> <<TokB(slice = <<"t", "r", "u", "e">>)>>, err |-> NoError]
    ELSE IF \A i \in 1..Len(slice) : is_alphanumeric(slice[i]) \/ slice[i] = "_"
    THEN [st |-> "Ok", tok |-> <<TokS("Identifier", slice)>>, err |-> NoError]
    ELSE [st |-> "Err", tok |-> <<>>, err |-> UnexpectedCharacter(Head(slice))]

\* the while-let loop over lexer.next(), from index p with `acc` pushed so far
RECURSIVE LexFrom(_, _, _, _)
LexFrom(src, p, acc, sp) ==
    LET q == ScanWhile(src, p, Whitespace)
    IN  IF q > Len(src) THEN [st |-> "Ok", tokens |-> acc, err |-> NoError]
        ELSE LET m == LexOne(src, q, sp)
             IN  IF Len(m.tok) > 0
                 THEN LexFrom(src, m.last + 1, Append(acc, m.tok[1]), sp)
                 ELSE LET r == Reclassify(SubSeq(src, q, m.last))
                      IN  IF r.st = "Ok"
                          THEN LexFrom(src, m.last + 1, Append(acc, r.tok[1]), sp)
                          ELSE [st |-> r.st, tokens |-> <<>>, err |-> r.err]

ParserNew(src, sp) == LexFrom(src, 1, <<>>, sp)

(***************************************************************************)
(* Syntax tree (Expr, Nodes, BinaryOp, UnaryOp, Types)                     *)
(***************************************************************************)
\* Expr::Literal(Nodes::<kind>(payload))
Literal(kind, token) == [e |-> "Literal", node |-> [k |-> kind, s |-> token.s, b |-> token.b]]
Binary(l, op, r) == [e |-> "Binary", left |-> l, operator |-> op, right |-> r]
Unary(op, x) == [e |-> "Unary", operator |-> op, operand |-> x]
Assignment(name, v) == [e |-> "Assignment", identifier |-> name, value |-> v]
LetDeclaration(name, ty, v) ==
    [e |-> "LetDeclaration", identifier |-> name, var_type |-> ty, value |-> v]
IfElse(cond, then, else) ==
    [e |-> "IfElse", condition |-> cond, then_branch |-> then, else_branch |-> else]
Block(stmts) == [e |-> "Block", statements |-> stmts]
PrintExpr(x) == [e |-> "Print", expr |-> x]
\* the value slot of a Result that is an Err
NoExpr == [e |-> "None"]

\* Result<Expr, ParserError> together with the cursor the call leaves behind
Ok(v, cur) == [ok |-> TRUE, val |-> v, err |-> NoError, cur |-> cur]
Err(er, cur) == [ok |-> FALSE, val |-> NoExpr, err |-> er, cur |-> cur]

(***************************************************************************)
(* Cursor primitives                                                       *)
(***************************************************************************)
is_at_end(self, cur) == cur >= Len(self.tokens)

peek(self, cur) == IF cur < Len(self.tokens) THEN <<self.tokens[cur + 1]>> ELSE <<>>

previous(self, cur) ==
    IF cur > 0 /\ cur - 1 < Len(self.tokens) THEN <<self.tokens[cur]>> ELSE <<>>

\* a mutant of advance: the cursor moves also at the end of the buffer
advance_unchecked(self, cur) == cur + 1

\* the cursor after advance()
advance(self, cur) == IF ~is_at_end(self, cur) THEN cur + 1 ELSE cur

\* match_token compares discriminants only: [hit, cur]
match_token(self, cur, kind) ==
    IF Len(peek(self, cur)) > 0 /\ peek(self, cur)[1].k = kind
    THEN [hit |-> TRUE, cur |-> advance(self, cur)]
    ELSE [hit |-> FALSE, cur |-> cur]

\* the else-if chains of the match_*_op functions: the first kind of
\* `table` (pairs <<token kind, operator>>) that matches: [op, cur]
RECURSIVE match_op(_, _, _)
match_op(self, cur, table) ==
    IF Len(table) = 0 THEN [op |-> <<>>, cur |-> cur]
    ELSE LET m == match_token(self, cur, table[1][1])
         IN  IF m.hit THEN [op |-> <<table[1][2]>>, cur |-> m.cur]
             ELSE match_op(self, cur, Tail(table))

match_equality_op(self, cur) ==
    match_op(self, cur, <<<<"NotEquals", "NotEqual">>, <<"EqualsEquals", "Equal">>>>)

match_comparison_op(self, cur) ==
    match_op(self, cur, <<<<"GreaterThan", "Greater">>,
                          <<"GreaterThanEquals", "GreaterEqual">>,
                          <<"LessThan", "Less">>,
                          <<"LessThanEquals", "LessEqual">>>>)

match_term_op(self, cur) ==
    match_op(self, cur, <<<<"Minus", "Subtract">>, <<"Plus", "Add">>>>)

match_factor_op(self, cur) ==
    match_op(self, cur, <<<<"Slash", "Divide">>, <<"Star", "Multiply">>,
                          <<"Percent", "Modulo">>>>)

match_unary_op(self, cur) ==
    match_op(self, cur, <<<<"Minus", "Minus">>, <<"Bang", "Not">>>>)

(***************************************************************************)
(* The grammar rules.  Each takes the token buffer and the cursor and      *)
(* gives the Result and the cursor it leaves.                              *)
(* A rule reaches another rule through `call`, which dispatches on the     *)
(* rule's name.                                                            *)
(***************************************************************************)
RECURSIVE call(_, _, _)
RECURSIVE block_statements(_, _, _)
RECURSIVE term_loop(_, _, _), factor_loop(_, _, _), or_loop(_, _, _), and_loop(_, _, _)
RECURSIVE equality_loop(_, _, _), comparison_loop(_, _, _)

\* a mutant of statement: the `;` after the expression is left in place
statement_keeps_semicolon(self, cur) == call("expression", self, cur)

\* a mutant of statement: a statement followed by another one needs its `;`
statement_requires_semicolon(self, cur) ==
    LET r == call("expression", self, cur)
    IN  IF r.ok
        THEN LET m == match_token(self, r.cur, "Semicolon")
             IN  IF m.hit \/ is_at_end(self, m.cur) \/ peek(self, m.cur) = <<Tok("RightBrace")>>
                 THEN Ok(r.val, m.cur)
                 ELSE Err(ExpectedAfter(";", "statement"), m.cur)
        ELSE r

\* a mutant of statement: before a `;` it returns an empty statement and
\* leaves the `;` in place
statement_accepts_empty(self, cur) ==
    IF peek(self, cur) = <<Tok("Semicolon")>>
    THEN Ok(Block(<<>>), cur)
    ELSE LET r == call("expression", self, cur)
         IN  IF r.ok
             THEN Ok(r.val, match_token(self, r.cur, "Semicolon").cur)
             ELSE r

statement(self, cur) ==
    LET r == call("expression", self, cur)
    IN  IF r.ok
        THEN Ok(r.val, match_token(self, r.cur, "Semicolon").cur)
        ELSE r

expression(self, cur) ==
    CASE Len(peek(self, cur)) > 0 /\ peek(self, cur)[1].k = "KeywordIf" ->
             call("if_else", self, cur)
      [] Len(peek(self, cur)) > 0 /\ peek(self, cur)[1].k = "KeywordPrint" ->
             call("print", self, cur)
      [] OTHER -> call("assignment", self, cur)

\* while !self.match_token(&Token::RightBrace) && !self.is_at_end()
\*     { statements.push(self.statement()?) }
\* then the check of previous(); the loop of a block, an if-block and an
\* else-block, which differ in the name `what` the error carries
block_statements(self, cur, acc) ==
    LET m == match_token(self, cur, "RightBrace")
    IN  IF ~m.hit /\ ~is_at_end(self, m.cur)
        THEN LET s == call("statement", self, m.cur)
             IN  IF s.ok
                 THEN block_statements(self, s.cur, Append(acc, s.val))
                 ELSE s
        ELSE Ok(Block(acc), m.cur)

\* a mutant of closed_block: an error raised inside the block is replaced
closed_block_masks(self, cur, what) ==
    LET b == block_statements(self, cur, <<>>)
    IN  IF ~b.ok \/ previous(self, b.cur) # <<Tok("RightBrace")>>
        THEN Err(ExpectedAfter("}", what), b.cur)
        ELSE b

closed_block(self, cur, what) ==
    LET b == block_statements(self, cur, <<>>)
    IN  IF b.ok
        THEN IF previous(self, b.cur) # <<Tok("RightBrace")>>
             THEN Err(ExpectedAfter("}", what), b.cur)
             ELSE b
        ELSE b

\* a mutant of primary: a looping keyword is read as a name
primary_reads_loop_keyword(self, cur) ==
    IF Len(peek(self, cur)) = 0 THEN Err(UnexpectedEndOfInput, cur)
    ELSE LET token == peek(self, cur)[1]
         IN  CASE token.k \in {"Integer", "Float", "String", "Boolean", "Identifier",
                               "KeywordWhile", "KeywordFor"} ->
                    Ok(Literal("Identifier", token), advance(self, cur))
               [] token.k = "LeftParen" ->
                    LET r == call("expression", self, advance(self, cur))
                    IN  IF r.ok
                        THEN LET m == match_token(self, r.cur, "RightParen")
                             IN  IF ~m.hit
                                 THEN Err(ExpectedAfter(")", "expression"), m.cur)
                                 ELSE Ok(r.val, m.cur)
                        ELSE r
               [] token.k = "LeftBrace" -> call("block", self, advance(self, cur))
               [] OTHER -> Err(UnexpectedToken(token), cur)

\* a mutant of primary: an operand may be an `if` or a `print` form
primary_reads_forms(self, cur) ==
    IF Len(peek(self, cur)) = 0 THEN Err(UnexpectedEndOfInput, cur)
    ELSE LET token == peek(self, cur)[1]
         IN  CASE token.k \in {"Integer", "Float", "String", "Boolean", "Identifier"} ->
                    Ok(Literal(token.k, token), advance(self, cur))
               [] token.k \in {"LeftParen", "KeywordIf", "KeywordPrint"} ->
                    LET r == call("expression",
                                  self, IF token.k = "LeftParen" THEN advance(self, cur) ELSE cur)
                    IN  IF r.ok /\ token.k = "LeftParen"
                        THEN LET m == match_token(self, r.cur, "RightParen")
                             IN  IF ~m.hit
                                 THEN Err(ExpectedAfter(")", "expression"), m.cur)
                                 ELSE Ok(r.val, m.cur)
                        ELSE r
               [] token.k = "LeftBrace" -> call("block", self, advance(self, cur))
               [] OTHER -> Err(UnexpectedToken(token), cur)

\* a mutant of primary: a parenthesised expression is recorded as a node of
\* its own
primary_records_group(self, cur) ==
    IF Len(peek(self, cur)) = 0 THEN Err(UnexpectedEndOfInput, cur)
    ELSE LET token == peek(self, cur)[1]
         IN  CASE token.k \in {"Integer", "Float", "String", "Boolean", "Identifier"} ->
                    Ok(Literal(token.k, token), advance(self, cur))
               [] token.k = "LeftParen" ->
                    LET r == call("expression", self, advance(self, cur))
                    IN  IF r.ok
                        THEN LET m == match_token(self, r.cur, "RightParen")
                             IN  IF ~m.hit
                                 THEN Err(ExpectedAfter(")", "expression"), m.cur)
                                 ELSE Ok([e |-> "Grouping", expr |-> r.val], m.cur)
                        ELSE r
               [] token.k = "LeftBrace" -> call("block", self, advance(self, cur))
               [] OTHER -> Err(UnexpectedToken(token), cur)

primary(self, cur) ==
    IF Len(peek(self, cur)) = 0 THEN Err(UnexpectedEndOfInput, cur)
    ELSE LET token == peek(self, cur)[1]
         IN  CASE token.k \in {"Integer", "Float", "String", "Boolean", "Identifier"} ->
                    Ok(Literal(token.k, token), advance(self, cur))
               [] token.k = "LeftParen" ->
                    LET r == call("expression", self, advance(self, cur))
                    IN  IF r.ok
                        THEN LET m == match_token(self, r.cur, "RightParen")
                             IN  IF ~m.hit
                                 THEN Err(ExpectedAfter(")", "expression"), m.cur)
                                 ELSE Ok(r.val, m.cur)
                        ELSE r
               [] token.k = "LeftBrace" -> call("block", self, advance(self, cur))
               [] OTHER -> Err(UnexpectedToken(token), cur)

\* a mutant of term_loop: the right operand takes the rest of the chain
term_loop_right(self, cur, expr) ==
    LET m == match_term_op(self, cur)
    IN  IF Len(m.op) = 0 THEN Ok(expr, m.cur)
        ELSE LET r == call("term", self, m.cur)
             IN  IF r.ok THEN Ok(Binary(expr, m.op[1], r.val), r.cur) ELSE r

term_loop(self, cur, expr) ==
    LET m == match_term_op(self, cur)
    IN  IF Len(m.op) = 0 THEN Ok(expr, m.cur)
        ELSE LET r == call("factor", self, m.cur)
             IN  IF r.ok
                 THEN term_loop(self, r.cur, Binary(expr, m.op[1], r.val))
                 ELSE r

\* a mutant of term: the left operand skips the multiplicative level
term_over_unary(self, cur) ==
    LET l == call("unary", self, cur)
    IN  IF l.ok THEN term_loop(self, l.cur, l.val) ELSE l

term(self, cur) ==
    LET l == call("factor", self, cur)
    IN  IF l.ok THEN term_loop(self, l.cur, l.val) ELSE l

factor_loop(self, cur, expr) ==
    LET m == match_factor_op(self, cur)
    IN  IF Len(m.op) = 0 THEN Ok(expr, m.cur)
        ELSE LET r == call("unary", self, m.cur)
             IN  IF r.ok
                 THEN factor_loop(self, r.cur, Binary(expr, m.op[1], r.val))
                 ELSE r

factor(self, cur) ==
    LET l == call("unary", self, cur)
    IN  IF l.ok THEN factor_loop(self, l.cur, l.val) ELSE l

\* a mutant of unary: the operand of a prefix operator takes a whole product
unary_over_factor(self, cur) ==
    LET m == match_unary_op(self, cur)
    IN  IF Len(m.op) > 0
        THEN LET r == call("factor", self, m.cur)
             IN  IF r.ok THEN Ok(Unary(m.op[1], r.val), r.cur) ELSE r
        ELSE call("primary", self, cur)

unary(self, cur) ==
    LET m == match_unary_op(self, cur)
    IN  IF Len(m.op) > 0
        THEN LET r == call("unary", self, m.cur)
             IN  IF r.ok THEN Ok(Unary(m.op[1], r.val), r.cur) ELSE r
        ELSE call("primary", self, cur)

or_loop(self, cur, expr) ==
    LET m == match_token(self, cur, "Or")
    IN  IF ~m.hit THEN Ok(expr, m.cur)
        ELSE LET r == call("and", self, m.cur)
             IN  IF r.ok
                 THEN or_loop(self, r.cur, Binary(expr, "Or", r.val))
                 ELSE r

or(self, cur) ==
    LET l == call("and", self, cur)
    IN  IF l.ok THEN or_loop(self, l.cur, l.val) ELSE l

and_loop(self, cur, expr) ==
    LET m == match_token(self, cur, "And")
    IN  IF ~m.hit THEN Ok(expr, m.cur)
        ELSE LET r == call("equality", self, m.cur)
             IN  IF r.ok
                 THEN and_loop(self, r.cur, Binary(expr, "And", r.val))
                 ELSE r

and(self, cur) ==
    LET l == call("equality", self, cur)
    IN  IF l.ok THEN and_loop(self, l.cur, l.val) ELSE l

equality_loop(self, cur, expr) ==
    LET m == match_equality_op(self, cur)
    IN  IF Len(m.op) = 0 THEN Ok(expr, m.cur)
        ELSE LET r == call("comparison", self, m.cur)
             IN  IF r.ok
                 THEN equality_loop(self, r.cur, Binary(expr, m.op[1], r.val))
                 ELSE r

equality(self, cur) ==
    LET l == call("comparison", self, cur)
    IN  IF l.ok THEN equality_loop(self, l.cur, l.val) ELSE l

comparison_loop(self, cur, expr) ==
    LET m == match_comparison_op(self, cur)
    IN  IF Len(m.op) = 0 THEN Ok(expr, m.cur)
        ELSE LET r == call("term", self, m.cur)
             IN  IF r.ok
                 THEN comparison_loop(self, r.cur, Binary(expr, m.op[1], r.val))
                 ELSE r

comparison(self, cur) ==
    LET l == call("term", self, cur)
    IN  IF l.ok THEN comparison_loop(self, l.cur, l.val) ELSE l

\* a mutant of parse_type: a name that is no primitive is reported like any
\* other token that is no type
parse_type_no_names(self, cur) ==
    IF Len(peek(self, cur)) > 0
    THEN LET token == peek(self, cur)[1]
             ty == CASE token.k = "TypeI32" -> "I32"
                     [] token.k = "TypeI64" -> "I64"
                     [] token.k = "TypeBool" -> "Bool"
                     [] token.k = "TypeF32" -> "F32"
                     [] token.k = "TypeF64" -> "F64"
                     [] token.k = "TypeString" -> "String"
                     [] OTHER -> ""
         IN  IF ty # ""
             THEN [ok |-> TRUE, ty |-> ty, err |-> NoError, cur |-> advance(self, cur)]
             ELSE [ok |-> FALSE, ty |-> "", err |-> ExpectedToken("type"), cur |-> cur]
    ELSE [ok |-> FALSE, ty |-> "", err |-> ExpectedToken("type"), cur |-> cur]

\* Result<Types, ParserError>: [ok, ty, err, cur]
parse_type(self, cur) ==
    IF Len(peek(self, cur)) > 0
    THEN LET token == peek(self, cur)[1]
             name == token.s
         IN  IF token.k = "Identifier"
             THEN CASE name = <<"i", "3", "2">> ->
                         [ok |-> TRUE, ty |-> "I32", err |-> NoError, cur |-> advance(self, cur)]
                    [] name = <<"i", "6", "4">> ->
                         [ok |-> TRUE, ty |-> "I64", err |-> NoError, cur |-> advance(self, cur)]
                    [] name = <<"b", "o", "o", "l">> ->
                         [ok |-> TRUE, ty |-> "Bool", err |-> NoError, cur |-> advance(self, cur)]
                    [] name = <<"f", "3", "2">> ->
                         [ok |-> TRUE, ty |-> "F32", err |-> NoError, cur |-> advance(self, cur)]
                    [] name = <<"f", "6", "4">> ->
                         [ok |-> TRUE, ty |-> "F64", err |-> NoError, cur |-> advance(self, cur)]
                    [] name = <<"S", "t", "r", "i", "n", "g">> ->
                         [ok |-> TRUE, ty |-> "String", err |-> NoError, cur |-> advance(self, cur)]
                    [] OTHER ->
                         [ok |-> FALSE, ty |-> "", err |-> UnknownType(token),
                          cur |-> advance(self, cur)]
             ELSE CASE token.k = "TypeI32" ->
                         [ok |-> TRUE, ty |-> "I32", err |-> NoError, cur |-> advance(self, cur)]
                    [] token.k = "TypeI64" ->
                         [ok |-> TRUE, ty |-> "I64", err |-> NoError, cur |-> advance(self, cur)]
                    [] token.k = "TypeBool" ->
                         [ok |-> TRUE, ty |-> "Bool", err |-> NoError, cur |-> advance(self, cur)]
                    [] token.k = "TypeF32" ->
                         [ok |-> TRUE, ty |-> "F32", err |-> NoError, cur |-> advance(self, cur)]
                    [] token.k = "TypeF64" ->
                         [ok |-> TRUE, ty |-> "F64", err |-> NoError, cur |-> advance(self, cur)]
                    [] token.k = "TypeString" ->
                         [ok |-> TRUE, ty |-> "String", err |-> NoError, cur |-> advance(self, cur)]
                    [] OTHER ->
                         [ok |-> FALSE, ty |-> "", err |-> ExpectedToken("type"), cur |-> cur]
    ELSE [ok |-> FALSE, ty |-> "", err |-> ExpectedToken("type"), cur |-> cur]

\* a mutant of let_tail: the annotation is parsed and dropped
let_tail_untyped(self, cur, name) ==
    LET c == match_token(self, cur, "Colon")
        ty == parse_type(self, c.cur)
    IN  IF c.hit /\ ~ty.ok THEN Err(ty.err, ty.cur)
        ELSE LET q == match_token(self, IF c.hit THEN ty.cur ELSE c.cur, "Equals")
             IN  IF ~q.hit
                 THEN Err(ExpectedAfterCustom("=", "", "identifier"), q.cur)
                 ELSE LET value == call("assignment", self, q.cur)
                      IN  IF value.ok
                          THEN Ok(LetDeclaration(name, <<>>, value.val), value.cur)
                          ELSE value

\* the part of a `let` after the identifier `name` (cursor past it):
\* the optional annotation, `=`, the value
let_tail(self, cur, name) ==
    LET c == match_token(self, cur, "Colon")
        ty == parse_type(self, c.cur)
    IN  IF c.hit /\ ~ty.ok THEN Err(ty.err, ty.cur)
        ELSE LET var_type == IF c.hit THEN <<ty.ty>> ELSE <<>>
                 q == match_token(self, IF c.hit THEN ty.cur ELSE c.cur, "Equals")
             IN  IF ~q.hit
                 THEN Err(ExpectedAfterCustom("=", "", "identifier"), q.cur)
                 ELSE LET value == call("assignment", self, q.cur)
                      IN  IF value.ok
                          THEN Ok(LetDeclaration(name, var_type, value.val), value.cur)
                          ELSE value

\* a mutant of assign_rest: the target is not checked
assign_rest_any_target(self, expr) ==
    LET q == match_token(self, expr.cur, "Equals")
    IN  IF ~q.hit THEN Ok(expr.val, q.cur)
        ELSE LET value == call("assignment", self, q.cur)
             IN  IF value.ok
                 THEN Ok(Assignment(<<>>, value.val), value.cur)
                 ELSE value

\* a mutant of assign_rest: the value is parsed by the logical-or rule
assign_rest_or_value(self, expr) ==
    LET q == match_token(self, expr.cur, "Equals")
    IN  IF ~q.hit THEN Ok(expr.val, q.cur)
        ELSE IF expr.val.e = "Literal" /\ expr.val.node.k = "Identifier"
        THEN LET value == call("or", self, q.cur)
             IN  IF value.ok
                 THEN Ok(Assignment(expr.val.node.s, value.val), value.cur)
                 ELSE value
        ELSE Err(InvalidAssignment("target must be an identifier"), q.cur)

\* the part of assignment after `let expr = self.or()?`: expr is the Ok
\* result of the logical-or rule
assign_rest(self, expr) ==
    LET q == match_token(self, expr.cur, "Equals")
    IN  IF ~q.hit THEN Ok(expr.val, q.cur)
        ELSE IF expr.val.e = "Literal" /\ expr.val.node.k = "Identifier"
        THEN LET value == call("assignment", self, q.cur)
             IN  IF value.ok
                 THEN Ok(Assignment(expr.val.node.s, value.val), value.cur)
                 ELSE value
        ELSE Err(InvalidAssignment("target must be an identifier"), q.cur)

assignment(self, cur) ==
    LET l == match_token(self, cur, "KeywordLet")
    IN  IF l.hit
        THEN IF Len(peek(self, l.cur)) > 0 /\ peek(self, l.cur)[1].k = "Identifier"
             THEN let_tail(self, advance(self, l.cur), peek(self, l.cur)[1].s)
             ELSE Err(ExpectedAfter("identifier", "let"), l.cur)
        ELSE LET expr == call("or", self, cur)
             IN  IF expr.ok THEN assign_rest(self, expr) ELSE expr

\* a mutant of else_part: an absent else gives an empty block
else_part_empty_block(self, cur) ==
    LET k == match_token(self, cur, "KeywordElse")
    IN  IF ~k.hit
        THEN [ok |-> TRUE, opt |-> <<Block(<<>>)>>, err |-> NoError, cur |-> k.cur]
        ELSE LET b == match_token(self, k.cur, "LeftBrace")
                 blk == call("else-block", self, b.cur)
             IN  IF b.hit /\ blk.ok
                 THEN [ok |-> TRUE, opt |-> <<blk.val>>, err |-> NoError, cur |-> blk.cur]
                 ELSE [ok |-> FALSE, opt |-> <<>>, err |-> ExpectedAfter("{", "else"),
                       cur |-> b.cur]

\* a mutant of else_part: `else if ...` is taken as a chained conditional
else_part_chains(self, cur) ==
    LET k == match_token(self, cur, "KeywordElse")
    IN  IF ~k.hit THEN [ok |-> TRUE, opt |-> <<>>, err |-> NoError, cur |-> k.cur]
        ELSE IF peek(self, k.cur) = <<Tok("KeywordIf")>>
        THEN LET nested == call("if_else", self, k.cur)
             IN  [ok |-> nested.ok, opt |-> IF nested.ok THEN <<nested.val>> ELSE <<>>,
                  err |-> nested.err, cur |-> nested.cur]
        ELSE LET b == match_token(self, k.cur, "LeftBrace")
                 blk == call("else-block", self, b.cur)
             IN  IF ~b.hit
                 THEN [ok |-> FALSE, opt |-> <<>>, err |-> ExpectedAfter("{", "else"),
                       cur |-> b.cur]
                 ELSE IF blk.ok
                 THEN [ok |-> TRUE, opt |-> <<blk.val>>, err |-> NoError, cur |-> blk.cur]
                 ELSE [ok |-> FALSE, opt |-> <<>>, err |-> blk.err, cur |-> blk.cur]

\* the else part of if_else, after the then-block: [ok, opt, err, cur]
else_part(self, cur) ==
    LET k == match_token(self, cur, "KeywordElse")
    IN  IF ~k.hit THEN [ok |-> TRUE, opt |-> <<>>, err |-> NoError, cur |-> k.cur]
        ELSE LET b == match_token(self, k.cur, "LeftBrace")
             IN  IF ~b.hit
                 THEN [ok |-> FALSE, opt |-> <<>>, err |-> ExpectedAfter("{", "else"),
                       cur |-> b.cur]
                 ELSE LET blk == call("else-block", self, b.cur)
                      IN  IF blk.ok
                          THEN [ok |-> TRUE, opt |-> <<blk.val>>, err |-> NoError,
                                cur |-> blk.cur]
                          ELSE [ok |-> FALSE, opt |-> <<>>, err |-> blk.err, cur |-> blk.cur]

if_else(self, cur) ==
    LET k == match_token(self, cur, "KeywordIf")
    IN  IF ~k.hit THEN Err(ExpectedToken("if"), k.cur)
        ELSE LET condition == call("expression", self, k.cur)
             IN  IF condition.ok
                 THEN LET b == match_token(self, condition.cur, "LeftBrace")
                      IN  IF ~b.hit THEN Err(ExpectedAfter("{", "if condition"), b.cur)
                          ELSE LET then_branch == call("if-block", self, b.cur)
                                   else_branch == call("else_part", self, then_branch.cur)
                               IN  IF then_branch.ok
                                   THEN IF else_branch.ok
                                        THEN Ok(IfElse(condition.val, then_branch.val,
                                                       else_branch.opt), else_branch.cur)
                                        ELSE Err(else_branch.err, else_branch.cur)
                                   ELSE then_branch
                 ELSE condition

\* a mutant of print: without "(" the expression is taken as it stands
print_bare(self, cur) ==
    LET k == match_token(self, cur, "KeywordPrint")
    IN  IF ~k.hit THEN Err(ExpectedAfter("print", "statement"), k.cur)
        ELSE LET paren == Len(peek(self, k.cur)) > 0 /\ peek(self, k.cur)[1].k = "LeftParen"
                 expr == call("or", self, IF paren THEN advance(self, k.cur) ELSE k.cur)
             IN  IF expr.ok
                 THEN IF ~paren THEN Ok(PrintExpr(expr.val), expr.cur)
                      ELSE IF Len(peek(self, expr.cur)) > 0
                              /\ peek(self, expr.cur)[1].k = "RightParen"
                      THEN Ok(PrintExpr(expr.val), advance(self, expr.cur))
                      ELSE Err(ExpectedAfterCustom(")", "print", "expression"), expr.cur)
                 ELSE expr

\* a mutant of print: the inner expression is parsed by the expression rule
print_any_expression(self, cur) ==
    LET k == match_token(self, cur, "KeywordPrint")
    IN  IF ~k.hit THEN Err(ExpectedAfter("print", "statement"), k.cur)
        ELSE IF Len(peek(self, k.cur)) > 0 /\ peek(self, k.cur)[1].k = "LeftParen"
        THEN LET expr == call("expression", self, advance(self, k.cur))
             IN  IF expr.ok
                 THEN IF Len(peek(self, expr.cur)) > 0
                         /\ peek(self, expr.cur)[1].k = "RightParen"
                      THEN Ok(PrintExpr(expr.val), advance(self, expr.cur))
                      ELSE Err(ExpectedAfterCustom(")", "print", "expression"),
                               expr.cur)
                 ELSE expr
        ELSE Err(ExpectedAfter("(", "print"), k.cur)

print(self, cur) ==
    LET k == match_token(self, cur, "KeywordPrint")
    IN  IF ~k.hit THEN Err(ExpectedAfter("print", "statement"), k.cur)
        ELSE IF Len(peek(self, k.cur)) > 0 /\ peek(self, k.cur)[1].k = "LeftParen"
        THEN LET expr == call("or", self, advance(self, k.cur))
             IN  IF expr.ok
                 THEN IF Len(peek(self, expr.cur)) > 0
                         /\ peek(self, expr.cur)[1].k = "RightParen"
                      THEN Ok(PrintExpr(expr.val), advance(self, expr.cur))
                      ELSE Err(ExpectedAfterCustom(")", "print", "expression"),
                               expr.cur)
                 ELSE expr
        ELSE Err(ExpectedAfter("(", "print"), k.cur)

\* The rule that parses what follows a token of kind `kind`, where the
\* grammar has one: the expression in a parenthesis and the condition of an
\* `if`, the first statement of a block, the value after `=`.
MemoRule(kind) ==
    CASE kind \in {"LeftParen", "KeywordIf"} -> "expression"
      [] kind = "LeftBrace" -> "statement"
      [] kind = "Equals" -> "assignment"
      [] OTHER -> ""

\* The result of `rule` at cursor `cur`: a rule's result depends on the token
\* buffer and the cursor only, and self.memo holds the results of
\* MemoRule at the cursors it has tabulated.
call(rule, self, cur) ==
    IF cur \in DOMAIN self.memo /\ rule = MemoRule(self.tokens[cur].k)
    THEN self.memo[cur]
    ELSE CASE rule = "statement" -> statement(self, cur)
           [] rule = "expression" -> expression(self, cur)
           [] rule = "primary" -> primary(self, cur)
           [] rule = "term" -> term(self, cur)
           [] rule = "factor" -> factor(self, cur)
           [] rule = "unary" -> unary(self, cur)
           [] rule = "or" -> or(self, cur)
           [] rule = "and" -> and(self, cur)
           [] rule = "equality" -> equality(self, cur)
           [] rule = "comparison" -> comparison(self, cur)
           [] rule = "assignment" -> assignment(self, cur)
           [] rule = "if_else" -> if_else(self, cur)
           [] rule = "print" -> print(self, cur)
           [] rule \in {"block", "if-block", "else-block"} -> closed_block(self, cur, rule)
           [] rule = "else_part" -> else_part(self, cur)

\* `later` (the results at the cursors after p) and the result at cursor p,
\* where MemoRule names a rule for the token before p
Extend(toks, p, later) ==
    IF MemoRule(toks[p].k) = "" THEN later
    ELSE (p :> call(MemoRule(toks[p].k), [tokens |-> toks, memo |-> later], p)) @@ later

\* The results of MemoRule tabulated from the end of the buffer back to
\* cursor 1 (a rule calls rules at its own cursor or later); `later` holds
\* those at the cursors after p.
RECURSIVE Tabulate(_, _, _)
Tabulate(toks, p, later) ==
    IF p = 0 \/ p \in DOMAIN later THEN later
    ELSE Tabulate(toks, p - 1, Extend(toks, p, later))

\* the parser over the token buffer toks
parser(toks) == [tokens |-> toks, memo |-> Tabulate(toks, Len(toks), <<>>)]

\* Parser::parse: the loop from cursor `cur` with `acc` pushed so far:
\* Result<Vec<Expr>, ParserError> and the cursor: [ok, statements, err, cur]
RECURSIVE parse_loop(_, _, _)
parse_loop(self, cur, acc) ==
    IF is_at_end(self, cur)
    THEN [ok |-> TRUE, statements |-> acc, err |-> NoError, cur |-> cur]
    ELSE LET s == call("statement", self, cur)
         IN  IF s.ok
             THEN parse_loop(self, s.cur, Append(acc, s.val))
             ELSE [ok |-> FALSE, statements |-> <<>>, err |-> s.err, cur |-> s.cur]

\* a mutant of parse: every call starts at the first token
parse_from_start(self, cur) == parse_loop(self, 0, <<>>)

parse(self, cur) == parse_loop(self, cur, <<>>)

(***************************************************************************)
(* The code generator (rune_core/src/codegen.rs).  An LLVM value is kept   *)
(* as its kind (BasicValueEnum::IntValue, FloatValue, PointerValue), a     *)
(* stack slot as the LLVM type it was allocated with; the builder calls    *)
(* succeed once the builder is positioned in `main`.  CodeGen.variables is *)
(* a function from names to the type of their slot.                        *)
(***************************************************************************)
\* CodeGenError
NoCodeGenError == [code |-> "None", a |-> <<>>]
UndefinedVariable(name) == [code |-> "UndefinedVariable", a |-> name]
TypeMismatchCustom(msg) == [code |-> "TypeMismatchCustom", a |-> msg]
InvalidOperation(op) == [code |-> "InvalidOperation", a |-> op]
OperatorNotSupported(op) == [code |-> "OperatorNotSupported", a |-> op]
InternalError(msg) == [code |-> "InternalError", a |-> msg]

\* Result<BasicValueEnum, CodeGenError> together with self.variables after
\* the call
Compiled(kind, vs) == [ok |-> TRUE, kind |-> kind, err |-> NoCodeGenError, variables |-> vs]
Failed(er, vs) == [ok |-> FALSE, kind |-> "", err |-> er, variables |-> vs]

\* the kind of the value loaded from a slot of LLVM type ty
LoadedKind(ty) ==
    CASE ty \in {"i32", "i64", "i1"} -> "IntValue"
      [] ty \in {"f32", "f64"} -> "FloatValue"
      [] ty = "ptr" -> "PointerValue"

\* self.variables.insert(name, (alloca, ty))
Insert(vs, name, ty) ==
    [n \in DOMAIN vs \cup {name} |-> IF n = name THEN ty ELSE vs[n]]

compile_literal(node, vs) ==
    CASE node.k = "Integer" -> Compiled("IntValue", vs)
      [] node.k = "Float" -> Compiled("FloatValue", vs)
      [] node.k = "Boolean" -> Compiled("IntValue", vs)
      [] node.k = "String" -> Compiled("PointerValue", vs)
      [] node.k = "Identifier" ->
             Failed(InternalError("Unexpected identifier node in literal position"), vs)

compile_int_binary_op(operator, vs) == Compiled("IntValue", vs)

compile_float_binary_op(operator, vs) ==
    CASE operator \in {"Add", "Subtract", "Multiply", "Divide", "Modulo"} ->
             Compiled("FloatValue", vs)
      [] operator \in {"Equal", "NotEqual", "Greater", "Less", "GreaterEqual", "LessEqual"} ->
             Compiled("IntValue", vs)
      [] operator \in {"And", "Or"} -> Failed(InvalidOperation(operator), vs)

compile_ptr_binary_op(operator, vs) ==
    CASE operator \in {"Add", "Subtract", "Multiply", "Divide", "Modulo"} ->
             Compiled("PointerValue", vs)
      [] operator = "Greater" -> Compiled("IntValue", vs)
      [] OTHER -> Failed(OperatorNotSupported(operator), vs)

\* the match on the kinds of the two operand values
binary_op_on(l, operator, r, vs) ==
    CASE l = "IntValue" /\ r = "IntValue" -> compile_int_binary_op(operator, vs)
      [] {l, r} \subseteq {"IntValue", "FloatValue"} -> compile_float_binary_op(operator, vs)
      [] {l, r} \subseteq {"IntValue", "PointerValue"} -> compile_ptr_binary_op(operator, vs)
      [] OTHER -> Failed(InternalError("No binary operator"), vs)

unary_op_on(operator, operand_val, vs) ==
    CASE operator = "Minus" /\ operand_val \in {"IntValue", "FloatValue"} ->
             Compiled(operand_val, vs)
      [] operator = "Not" /\ operand_val = "IntValue" -> Compiled("IntValue", vs)
      [] OTHER -> Failed(OperatorNotSupported(operator), vs)

\* the LLVM type of the slot of a `let` with annotation var_type
SlotType(var_type) ==
    IF Len(var_type) = 0 THEN "i64"
    ELSE CASE var_type[1] = "I32" -> "i32"
           [] var_type[1] = "I64" -> "i64"
           [] var_type[1] = "F32" -> "f32"
           [] var_type[1] = "F64" -> "f64"
           [] var_type[1] = "Bool" -> "i1"
           [] var_type[1] = "String" -> "ptr"

RECURSIVE compile_expression(_, _), compile_block_from(_, _, _, _)

compile_binary_op(left, operator, right, vs) ==
    LET left_val == compile_expression(left, vs)
    IN  IF ~left_val.ok THEN left_val
        ELSE LET right_val == compile_expression(right, left_val.variables)
             IN  IF ~right_val.ok THEN right_val
                 ELSE binary_op_on(left_val.kind, operator, right_val.kind,
                                   right_val.variables)

compile_unary_op(operator, operand, vs) ==
    LET operand_val == compile_expression(operand, vs)
    IN  IF ~operand_val.ok THEN operand_val
        ELSE unary_op_on(operator, operand_val.kind, operand_val.variables)

compile_assignment(identifier, value, vs) ==
    LET val == compile_expression(value, vs)
    IN  IF ~val.ok THEN val
        ELSE IF identifier \in DOMAIN val.variables
        THEN Compiled(val.kind, val.variables)
        ELSE Failed(UndefinedVariable(identifier), val.variables)

\* a mutant of compile_let_declaration: the name is defined before its
\* value is compiled
compile_let_declaration_early(identifier, value, var_type, vs) ==
    LET val == compile_expression(value, Insert(vs, identifier, SlotType(var_type)))
    IN  IF ~val.ok THEN val
        ELSE Compiled(val.kind, val.variables)

compile_let_declaration(identifier, value, var_type, vs) ==
    LET val == compile_expression(value, vs)
    IN  IF ~val.ok THEN val
        ELSE Compiled(val.kind, Insert(val.variables, identifier, SlotType(var_type)))

compile_if_else(condition, then_branch, else_branch, vs) ==
    LET condition_val == compile_expression(condition, vs)
    IN  IF ~condition_val.ok THEN condition_val
        ELSE IF condition_val.kind # "IntValue"
        THEN Failed(TypeMismatchCustom("Condition must be an integer"),
                    condition_val.variables)
        ELSE LET then_val == compile_expression(then_branch, condition_val.variables)
             IN  IF ~then_val.ok THEN then_val
                 ELSE IF Len(else_branch) = 0
                 THEN Compiled(then_val.kind, then_val.variables)
                 ELSE LET else_val == compile_expression(else_branch[1], then_val.variables)
                      IN  IF ~else_val.ok THEN else_val
                          ELSE Compiled(then_val.kind, else_val.variables)

\* the loop of compile_block from statement i on, last_val being `last`
compile_block_from(statements, i, last, vs) ==
    IF i > Len(statements) THEN Compiled(last, vs)
    ELSE LET val == compile_expression(statements[i], vs)
         IN  IF ~val.ok THEN val
             ELSE compile_block_from(statements, i + 1, val.kind, val.variables)

compile_block(statements, vs) == compile_block_from(statements, 1, "IntValue", vs)

compile_print(value, vs) ==
    LET printed_val == compile_expression(value, vs)
    IN  IF ~printed_val.ok THEN printed_val
        ELSE CASE printed_val.kind = "PointerValue" ->
                      Compiled("IntValue", printed_val.variables)
               [] printed_val.kind = "IntValue" ->
                      Failed(TypeMismatchCustom("Printing integers directly not supported yet"),
                             printed_val.variables)
               [] OTHER ->
                      Failed(TypeMismatchCustom("Only strings can be printed directly for now."),
                             printed_val.variables)

compile_expression(expr, vs) ==
    CASE expr.e = "Literal" /\ expr.node.k = "Identifier" ->
             IF expr.node.s \in DOMAIN vs
             THEN Compiled(LoadedKind(vs[expr.node.s]), vs)
             ELSE Failed(UndefinedVariable(expr.node.s), vs)
      [] expr.e = "Literal" /\ expr.node.k # "Identifier" -> compile_literal(expr.node, vs)
      [] expr.e = "Binary" -> compile_binary_op(expr.left, expr.operator, expr.right, vs)
      [] expr.e = "Unary" -> compile_unary_op(expr.operator, expr.operand, vs)
      [] expr.e = "Assignment" -> compile_assignment(expr.identifier, expr.value, vs)
      [] expr.e = "LetDeclaration" ->
             compile_let_declaration(expr.identifier, expr.value, expr.var_type, vs)
      [] expr.e = "IfElse" ->
             compile_if_else(expr.condition, expr.then_branch, expr.else_branch, vs)
      [] expr.e = "Block" -> compile_block(expr.statements, vs)
      [] expr.e = "Print" -> compile_print(expr.expr, vs)

(***************************************************************************)
(* Source texts.  An input is written as a sequence of words; Spell gives  *)
(* the characters of a word and Source joins the words with single spaces. *)
(***************************************************************************)
Spell(w) ==
    CASE w = "let" -> <<"l", "e", "t">>
      [] w = "if" -> <<"i", "f">>
      [] w = "else" -> <<"e", "l", "s", "e">>
      [] w = "while" -> <<"w", "h", "i", "l", "e">>
      [] w = "for" -> <<"f", "o", "r">>
      [] w = "print" -> <<"p", "r", "i", "n", "t">>
      [] w = "true" -> <<"t", "r", "u", "e">>
      [] w = "false" -> <<"f", "a", "l", "s", "e">>
      [] w = "i32" -> <<"i", "3", "2">>
      [] w = "i64" -> <<"i", "6", "4">>
      [] w = "f32" -> <<"f", "3", "2">>
      [] w = "f64" -> <<"f", "6", "4">>
      [] w = "String" -> <<"S", "t", "r", "i", "n", "g">>
      [] w = "42" -> <<"4", "2">>
      [] w = "007" -> <<"0", "0", "7">>
      [] w = "9223372036854775807" -> I64MaxDigits
      [] w = "9223372036854775808" -> SubSeq(I64MaxDigits, 1, 18) \o <<"8">>
      [] w = "bool" -> <<"b", "o", "o", "l">>
      [] w = "int" -> <<"i", "n", "t">>
      [] w = "I64" -> <<"I", "6", "4">>
      [] w = "==" -> <<"=", "=">>
      [] w = "!=" -> <<"!", "=">>
      [] w = ">=" -> <<">", "=">>
      [] w = "<=" -> <<"<", "=">>
      [] w = "&&" -> <<"&", "&">>
      [] w = "||" -> <<"|", "|">>
      [] w = "1.5" -> <<"1", ".", "5">>
      [] w = "'s'" -> <<Quote, "s", Quote>>
      [] OTHER -> <<w>>

RECURSIVE Source(_)
Source(ws) ==
    IF Len(ws) = 0 THEN <<>>
    ELSE IF Len(ws) = 1 THEN Spell(ws[1])
    ELSE Spell(ws[1]) \o <<" ">> \o Source(Tail(ws))

\* all sequences over S of length at most n
SeqsUpTo(S, n) == UNION {[1..k -> S] : k \in 0..n}

(***************************************************************************)
(* The state machine: Parser::new on the input, then parse() calls         *)
(***************************************************************************)
MaxCalls == 2
\* how far at most the error slice runs past an unmatched quote
MaxSpan == 2

InitWith(Inputs, Spans) ==
    /\ input \in Inputs
    /\ span \in Spans
    /\ tokens = <<>>
    /\ current = 0
    /\ newOut = [st |-> "None", err |-> NoError]
    /\ parseOut = [st |-> "None", statements |-> <<>>, err |-> NoError]
    /\ calls = 0
    /\ earlier = <<>>
    /\ program = <<>>
    /\ variables = <<>>
    /\ compiled = 0
    /\ compileOut = [st |-> "None", err |-> NoCodeGenError]

\* a mutant of New: how far the error slice runs past an unmatched quote is
\* not fixed by the build, each construction picks it
New_unfixed_extent ==
    /\ newOut.st = "None"
    /\ \E sp \in 0..MaxSpan :
           LET r == ParserNew(input, sp)
           IN  /\ newOut' = [st |-> r.st, err |-> r.err]
               /\ tokens' = r.tokens
    /\ current' = 0
    /\ UNCHANGED <<input, span, parseOut, calls, earlier, codegen>>

\* Parser::new(input)
New ==
    /\ newOut.st = "None"
    /\ LET r == ParserNew(input, span)
       IN  /\ newOut' = [st |-> r.st, err |-> r.err]
           /\ tokens' = r.tokens
    /\ current' = 0
    /\ UNCHANGED <<input, span, parseOut, calls, earlier, codegen>>

\* parser.parse() on the constructed parser
Parse ==
    /\ newOut.st = "Ok"
    /\ calls < MaxCalls
    /\ LET r == parse(parser(tokens), current)
       IN  /\ parseOut' = [st |-> IF r.ok THEN "Ok" ELSE "Err",
                           statements |-> r.statements, err |-> r.err]
           /\ current' = r.cur
    /\ calls' = calls + 1
    /\ UNCHANGED <<input, span, tokens, newOut, earlier, codegen>>

Next == New \/ Parse

\* A second, independent run on the same source text: the first run is over
\* (Parser::new failed, or the first parse() has returned), its outcome is
\* kept and a new parser is about to be constructed from the same text.
Again ==
    /\ earlier = <<>>
    /\ newOut.st \in {"Err", "Panic"} \/ calls = 1
    /\ earlier' = <<[new |-> newOut, parse |-> parseOut]>>
    /\ tokens' = <<>>
    /\ current' = 0
    /\ newOut' = [st |-> "None", err |-> NoError]
    /\ parseOut' = [st |-> "None", statements |-> <<>>, err |-> NoError]
    /\ calls' = 0
    /\ UNCHANGED <<input, span, codegen>>

NextTwice == New \/ Parse \/ Again

\* compile_statements(&statements) is entered with the statements a parse()
\* returned; `main` is created and the builder positioned in it
CompileStart ==
    /\ parseOut.st = "Ok"
    /\ program = <<>>
    /\ program' = <<parseOut.statements>>
    /\ UNCHANGED <<input, span, tokens, current, newOut, parseOut, calls, earlier,
                   variables, compiled, compileOut>>

\* one turn of `for statement in statements { self.compile_expression(statement)?; }`
CompileStatement ==
    /\ program # <<>>
    /\ compileOut.st = "None"
    /\ compiled < Len(program[1])
    /\ LET r == compile_expression(program[1][compiled + 1], variables)
       IN  /\ variables' = r.variables
           /\ IF r.ok
              THEN compiled' = compiled + 1 /\ UNCHANGED compileOut
              ELSE compileOut' = [st |-> "Err", err |-> r.err] /\ UNCHANGED compiled
    /\ UNCHANGED <<input, span, tokens, current, newOut, parseOut, calls, earlier, program>>

\* after the loop: `ret i32 0` is built and compile_statements returns Ok(())
CompileReturn ==
    /\ program # <<>>
    /\ compileOut.st = "None"
    /\ compiled = Len(program[1])
    /\ compileOut' = [st |-> "Ok", err |-> NoCodeGenError]
    /\ UNCHANGED <<input, span, tokens, current, newOut, parseOut, calls, earlier,
                   program, variables, compiled>>

NextCompile == New \/ Parse \/ CompileStart \/ CompileStatement \/ CompileReturn

\* Inputs of blocks and conditionals
MaxBlockWords == 5
BlockWords == {"{", "}", "x", ";", "if", "else"}
BlockInputs == {Source(ws) : ws \in SeqsUpTo(BlockWords, MaxBlockWords)}
InitBlocks == InitWith(BlockInputs, {0})
SpecBlocks == InitBlocks /\ [][Next]_vars

\* Inputs of single characters, among them one no rule matches ("@"), a
\* letter outside ASCII and the double quote
MaxChars == 3
LexChars == {"x", "1", "@", EAcute, Quote, " ", "="}
LexInputs == SeqsUpTo(LexChars, MaxChars)
InitLex == InitWith(LexInputs, 0..MaxSpan)
SpecLex == InitLex /\ [][Next]_vars

\* the concatenation of the phrases (word sequences) ps
RECURSIVE Flatten(_)
Flatten(ps) == IF Len(ps) = 0 THEN <<>> ELSE Head(ps) \o Flatten(Tail(ps))

\* Inputs of assignments: an optional "{", a candidate target or the start
\* of a chain, then `=` and values
MaxAssignTail == 2
AssignHeads ==
    {<<"x">>, <<"1">>, <<"true">>, <<"1.5">>, <<"'s'">>, <<"-", "x">>,
     <<"x", "+", "1">>, <<"{", "}">>, <<"(", "x", ")">>,
     <<"if", "x", "{", "}">>, <<"print", "(", "x", ")">>, <<"a", "||", "b">>,
     <<"y", "=">>, <<"let", "z", "=">>}
AssignTails == {<<"=">>, <<"y", "=">>, <<"1">>, <<"a", "||", "b">>, <<"let", "z", "=">>}
AssignInputs ==
    {Source(pre \o head \o Flatten(tail)) :
        pre \in {<<>>, <<"{">>}, head \in AssignHeads,
        tail \in SeqsUpTo(AssignTails, MaxAssignTail)}
InitAssign == InitWith(AssignInputs, {0})
SpecAssign == InitAssign /\ [][Next]_vars

\* Inputs of nested constructs: an optional statement, openers, and a body
\* that fails or not
MaxOpeners == 2
OpenerPhrases ==
    {<<"{">>, <<"(">>, <<"if", "x", "{">>,
     <<"if", "x", "{", "}", "else", "{">>, <<"let", "y", "=">>}
NestBodies ==
    {<<>>, <<")">>, <<"}">>, <<"1", "=", "2">>, <<"x">>, <<"x", "}">>, <<"x", ")">>}
NestInputs ==
    {Source(pre \o Flatten(open) \o body) :
        pre \in {<<>>, <<"x", ";">>}, open \in SeqsUpTo(OpenerPhrases, MaxOpeners),
        body \in NestBodies}
InitNest == InitWith(NestInputs, {0})
SpecNest == InitNest /\ [][Next]_vars

\* the phrases ps with ";" between them
RECURSIVE Separated(_)
Separated(ps) ==
    IF Len(ps) = 0 THEN <<>>
    ELSE IF Len(ps) = 1 THEN ps[1]
    ELSE ps[1] \o <<";">> \o Separated(Tail(ps))

\* Inputs of statement lists: statements separated by ";", with or without
\* a ";" after the last one, at top level or in a brace block
MaxStatements == 3
StatementPhrases ==
    {<<"x">>, <<"let", "y", "=", "1">>, <<"x", "+", "y">>, <<"y", "=", "2">>,
     <<"if", "x", "{", "y", "}", "else", "{", "}">>, <<"{", "x", "}">>}
StatementInputs ==
    {Source(wrap[1] \o Separated(ps) \o last \o wrap[2]) :
        ps \in SeqsUpTo(StatementPhrases, MaxStatements), last \in {<<>>, <<";">>},
        wrap \in {<<<<>>, <<>>>>, <<<<"{">>, <<"}">>>>}}
InitStatements == InitWith(StatementInputs, {0})
SpecStatements == InitStatements /\ [][Next]_vars

\* Inputs of binary expressions: operands with a binary operator between
\* each two
MaxOperators == 2
BinaryWords ==
    {"||", "&&", "==", "!=", ">", ">=", "<", "<=", "+", "-", "*", "/", "%"}
OperandWords == <<"a", "b", "c", "d", "e">>
RECURSIVE Chain(_, _)
\* the first operand w, then each operator of ops with the next operand
Chain(w, ops) ==
    IF Len(ops) = 0 THEN <<w>>
    ELSE Chain(w, SubSeq(ops, 1, Len(ops) - 1))
             \o <<ops[Len(ops)], OperandWords[Len(ops) + 1]>>
BinaryInputs ==
    {Source(Chain(w, ops)) : w \in {"a", "1"}, ops \in SeqsUpTo(BinaryWords, MaxOperators)}
InitBinary == InitWith(BinaryInputs, {0})
SpecBinary == InitBinary /\ [][Next]_vars

\* Inputs of prefix operators: a run of prefix operators, a primary, at
\* most one binary operator with its right operand; alone or as the
\* condition of an `if`
MaxPrefix == 3
PrefixWords == {"-", "!"}
PrimaryPhrases == {<<"a">>, <<"1">>, <<"(", "a", ")">>}
PrefixTails == {<<>>} \cup {<<w, "b">> : w \in BinaryWords}
PrefixInputs ==
    {Source(wrap[1] \o run \o prim \o tail \o wrap[2]) :
        run \in SeqsUpTo(PrefixWords, MaxPrefix), prim \in PrimaryPhrases,
        tail \in PrefixTails,
        wrap \in {<<<<>>, <<>>>>, <<<<"if">>, <<"{", "}", "else", "{", "}">>>>}}
InitPrefix == InitWith(PrefixInputs, {0})
SpecPrefix == InitPrefix /\ [][Next]_vars

\* Inputs of conditionals: a condition, a then-block of statements, and no
\* else or an else-block of statements
MaxBranch == 2
ConditionPhrases == {<<"x">>, <<"a", "==", "b">>, <<"(", "a", "||", "b", ")">>}
BranchPhrases ==
    {<<"x">>, <<"y", "=", "2">>, <<"if", "c", "{", "}">>, <<"{", "z", "}">>}
BranchBodies == {Separated(ps) : ps \in SeqsUpTo(BranchPhrases, MaxBranch)}
ElseBodies == {<<>>, <<"x">>, <<"x", ";", "y", "=", "2">>}
ElseParts == {<<>>} \cup {<<"else", "{">> \o body \o <<"}">> : body \in ElseBodies}
ConditionalInputs ==
    {Source(<<"if">> \o cond \o <<"{">> \o body \o <<"}">> \o else) :
        cond \in ConditionPhrases, body \in BranchBodies, else \in ElseParts}
InitConditional == InitWith(ConditionalInputs, {0})
SpecConditional == InitConditional /\ [][Next]_vars

\* Inputs of declarations: `let`, a name, no annotation or ":" and a type
\* name, "=", a value, with or without a final ";"
LetNames == {"x", "y"}
TypeWords == {"i32", "i64", "f32", "f64", "bool", "String"}
Annotations == {<<>>} \cup {<<":", ty>> : ty \in TypeWords}
IntegerWords == {"0", "1", "42", "007", "9223372036854775807", "9223372036854775808"}
ValuePhrases ==
    {<<w>> : w \in IntegerWords} \cup
    {<<"1.5">>, <<"true">>, <<"'s'">>, <<"z">>, <<"1", "+", "2">>, <<"-", "1">>}
LetInputs ==
    {Source(<<"let", name>> \o ann \o <<"=">> \o value \o last) :
        name \in LetNames, ann \in Annotations, value \in ValuePhrases,
        last \in {<<>>, <<";">>}}
InitLet == InitWith(LetInputs, {0})
SpecLet == InitLet /\ [][Next]_vars

\* Inputs of the print form: `print`, alone or after "{", followed by
\* something else than "(", or by "(", an inner phrase and what closes it
InnerPhrases ==
    {<<>>, <<"x">>, <<"'s'">>, <<"1", "+", "2">>, <<"a", "||", "b">>, <<"!", "c">>,
     <<"(", "x", ")">>, <<"x", "=", "1">>, <<"let", "x", "=", "1">>,
     <<"if", "c", "{", "}">>, <<"print", "(", "x", ")">>,
     <<"(", "x", "=", "1", ")">>, <<"(", "let", "x", "=", "1", ")">>}
PrintClosers == {<<>>, <<")">>, <<";">>, <<"}">>, <<")", ";">>, <<")", "}">>}
PrintRests ==
    {<<>>, <<"x">>, <<"'s'">>, <<"{", "}">>, <<")">>, <<";">>, <<"print">>, <<"=", "1">>}
        \cup {<<"(">> \o inner \o close : inner \in InnerPhrases, close \in PrintClosers}
PrintInputs ==
    {Source(pre \o <<"print">> \o rest) : pre \in {<<>>, <<"{">>}, rest \in PrintRests}
InitPrint == InitWith(PrintInputs, {0})
SpecPrint == InitPrint /\ [][Next]_vars

\* Inputs of annotations: `let`, a name, ":", and after it a type name,
\* another name, a literal, an operator, a bracket, a keyword or nothing,
\* followed by the rest of a declaration or by nothing
AfterColon ==
    {<<ty>> : ty \in TypeWords} \cup
    {<<"int">>, <<"I64">>, <<"z">>, <<"1">>, <<"1.5">>, <<"true">>, <<"'s'">>,
     <<"=">>, <<"-">>, <<"(">>, <<"{">>, <<";">>, <<":">>, <<"let">>, <<"if">>, <<>>}
AnnotationRests == {<<>>, <<"=", "1">>, <<"=", "1", ";">>, <<"z">>}
AnnotationInputs ==
    {Source(<<"let", name, ":">> \o after \o rest) :
        name \in LetNames, after \in AfterColon, rest \in AnnotationRests}
InitAnnotation == InitWith(AnnotationInputs, {0})
SpecAnnotation == InitAnnotation /\ [][Next]_vars

\* Inputs with a looping keyword: what stands before it leaves the parser
\* where an expression is expected (ExpressionPrefixes) or where another
\* token is expected (OtherPrefixes); anything may follow it
LoopWords == {"while", "for"}
ExpressionPrefixes ==
    {<<>>, <<"x">>, <<"x", ";">>, <<"1", "+">>, <<"a", "*">>, <<"a", "==">>, <<"a", "<">>,
     <<"a", "&&">>, <<"a", "||">>, <<"-">>, <<"!">>, <<"{">>, <<"{", "x", ";">>, <<"(">>,
     <<"x", "=">>, <<"let", "x", "=">>, <<"if">>, <<"if", "c", "{">>,
     <<"if", "c", "{", "}", "else", "{">>, <<"print", "(">>}
OtherPrefixes ==
    {<<"let">>, <<"let", "x">>, <<"let", "x", ":">>, <<"if", "c">>,
     <<"if", "c", "{", "}", "else">>, <<"print">>, <<"(", "x">>}
LoopRests == {<<>>, <<"x">>, <<"(", "x", ")", "{", "}">>, <<"}">>, <<")">>, <<";">>}
LoopInputs ==
    {Source(pre \o <<kw>> \o rest) :
        pre \in ExpressionPrefixes \cup OtherPrefixes, kw \in LoopWords, rest \in LoopRests}
InitLoop == InitWith(LoopInputs, {0})
SpecLoop == InitLoop /\ [][Next]_vars

\* Inputs run twice: short character sequences (with unmatched characters
\* and every extent of the unmatched slice), declarations and print forms
MaxTwiceChars == 2
TwiceInputs == SeqsUpTo(LexChars, MaxTwiceChars) \cup AnnotationInputs \cup PrintInputs
InitTwice == InitWith(TwiceInputs, 0..MaxSpan)
SpecTwice == InitTwice /\ [][NextTwice]_vars

\* Inputs of string literals: a quote, up to MaxStringChars characters
\* among the backslash, letters that name an escape or none, and the quote,
\* then a quote
MaxStringChars == 4
StringChars == {Backslash, "n", "t", "a", Quote}
StringInputs ==
    {<<Quote>> \o body \o <<Quote>> : body \in SeqsUpTo(StringChars, MaxStringChars)}
InitString == InitWith(StringInputs, {0})
SpecString == InitString /\ [][Next]_vars

\* Inputs of two statements: a first phrase, ";" or nothing, a second
\* phrase (some begin with a token that continues the first: "-", "="), at
\* top level or in a brace block
FirstPhrases ==
    {<<"x">>, <<"'s'">>, <<"let", "y", "=", "1">>, <<"x", "+", "y">>, <<"y", "=", "2">>,
     <<"if", "x", "{", "y", "}", "else", "{", "}">>, <<"if", "c", "{", "}">>,
     <<"{", "x", "}">>, <<"(", "x", ")">>, <<"print", "(", "x", ")">>}
SecondPhrases ==
    {<<"z">>, <<"7">>, <<"(", "z", ")">>, <<"{", "z", "}">>, <<"-", "1">>, <<"!", "b">>,
     <<"let", "z", "=", "1">>, <<"if", "c", "{", "}">>, <<"print", "(", "z", ")">>,
     <<"z", "=", "3">>, <<"=", "3">>}
PairWraps == {<<<<>>, <<>>>>, <<<<"{">>, <<"}">>>>}
PairInputs ==
    {Source(wrap[1] \o s1 \o sep \o s2 \o wrap[2]) :
        s1 \in FirstPhrases, s2 \in SecondPhrases, sep \in {<<>>, <<";">>},
        wrap \in PairWraps}
InitPairs == InitWith(PairInputs, {0})
SpecPairs == InitPairs /\ [][Next]_vars

\* Inputs of conditionals cut short: `if`, a condition, then either the
\* tail, or a then-block, `else` and the tail; a tail is nothing, or a word
\* that is no "{" followed by the rest of a conditional or by nothing
ElseConditions == {<<"x">>, <<"a", "==", "b">>, <<"(", "c", ")">>, <<"!", "d">>}
ThenBodies == {<<>>, <<"x">>, <<"y", "=", "2", ";">>}
AfterWords ==
    {"if", "x", "1", "'s'", ";", "}", ")", "(", "else", "let", "while"}
TailRests == {<<>>, <<"{", "}">>, <<"d", "{", "}">>}
Tails == {<<>>} \cup {<<w>> \o rest : w \in AfterWords, rest \in TailRests}
ElseInputs ==
    {Source(<<"if">> \o cond \o tail) : cond \in ElseConditions, tail \in Tails}
    \cup {Source(<<"if">> \o cond \o <<"{">> \o body \o <<"}", "else">> \o tail) :
            cond \in ElseConditions, body \in ThenBodies, tail \in Tails}
    \cup {Source(<<"if">> \o cond \o <<"{">> \o body \o <<"}", "else", "{", "x", "}">>) :
            cond \in ElseConditions, body \in ThenBodies}
InitElse == InitWith(ElseInputs, {0})
SpecElse == InitElse /\ [][Next]_vars

\* Inputs of programs for the code generator: up to MaxProgram statements
\* separated by ";", which declare, read and assign names at top level, in
\* a block and in the branches of a conditional
MaxProgram == 3
ProgramPhrases ==
    {<<"let", "a", "=", "1">>,
     <<"let", "b", "=", "a">>,
     <<"a", "=", "b">>,
     <<"let", "x", "=", "x">>,
     <<"if", "a", "{", "let", "c", "=", "1", "}", "else", "{", "c", "=", "2", "}">>,
     <<"{", "let", "d", "=", "c", ";", "d", "}">>,
     <<"c", "=", "-", "'s'">>,
     <<"c", "+", "d">>}
ProgramInputs == {Source(Separated(ps)) : ps \in SeqsUpTo(ProgramPhrases, MaxProgram)}
InitProgram == InitWith(ProgramInputs, {0})
SpecProgram == InitProgram /\ [][NextCompile]_vars

\* Inputs with an `if` or `print` form: what stands before it leaves the
\* parser where a value or an operand is read (OperandPrefixes) or where
\* expression() is called (FormSites, with the words that close the site)
FormPhrases ==
    {<<"if", "c", "{", "}", "else", "{", "}">>, <<"if", "c", "{", "}">>,
     <<"print", "(", "'s'", ")">>, <<"if">>, <<"print">>}
OperandPrefixes ==
    {<<"let", "x", "=">>, <<"x", "=">>, <<"x", "=", "y", "=">>, <<"-">>, <<"!">>, <<"-", "!">>,
     <<"1", "+">>, <<"a", "-">>, <<"a", "*">>, <<"a", "/">>, <<"a", "%">>,
     <<"a", "==">>, <<"a", "!=">>, <<"a", "<">>, <<"a", ">">>, <<"a", "<=">>, <<"a", ">=">>,
     <<"a", "&&">>, <<"a", "||">>,
     <<"{", "x", "=">>, <<"(", "1", "+">>, <<"if", "a", "==">>,
     <<"if", "c", "{", "let", "x", "=">>, <<"y", ";", "x", "=">>}
FormSites ==
    {[open |-> <<>>, close |-> <<>>],
     [open |-> <<"y", ";">>, close |-> <<";", "z">>],
     [open |-> <<"(">>, close |-> <<")">>],
     [open |-> <<"(", "(">>, close |-> <<")", ")">>],
     [open |-> <<"if">>, close |-> <<"{", "}">>],
     [open |-> <<"{">>, close |-> <<"}">>],
     [open |-> <<"if", "c", "{">>, close |-> <<"}">>]}
FormRests == {<<>>, <<")">>, <<"}">>, <<";", "x">>}
FormInputs ==
    {Source(pre \o form \o rest) :
        pre \in OperandPrefixes, form \in FormPhrases, rest \in FormRests}
    \cup {Source(site.open \o form \o site.close) : site \in FormSites, form \in FormPhrases}
InitForms == InitWith(FormInputs, {0})
SpecForms == InitForms /\ [][Next]_vars

\* Inputs with parentheses: an expression alone and inside up to MaxParens
\* pairs, a parenthesised expression as the left or the right operand of a
\* binary operator, and a parenthesised target before "="
MaxParens == 2
GroupedPhrases ==
    {<<"x">>, <<"1">>, <<"'s'">>, <<"a", "+", "b">>, <<"a", "*", "b", "+", "c">>,
     <<"a", "||", "b">>, <<"-", "x">>, <<"a", "=", "1">>, <<"let", "x", "=", "1">>,
     <<"if", "c", "{", "}">>, <<"{", "x", "}">>}
RECURSIVE Parenthesised(_, _)
Parenthesised(ws, n) ==
    IF n = 0 THEN ws ELSE <<"(">> \o Parenthesised(ws, n - 1) \o <<")">>
PlainOperands == {<<"c">>, <<"2">>}
TargetPhrases == {<<"x">>, <<"1">>, <<"a", "+", "b">>, <<"x", "=", "y">>}
TargetValues == {<<"1">>, <<"a", "||", "b">>, <<"(", "y", ")", "=", "2">>}
ParenInputs ==
    {Source(Parenthesised(e, n)) : e \in GroupedPhrases, n \in 0..MaxParens}
    \cup {Source(Parenthesised(e, 1) \o <<op>> \o r) :
              e \in GroupedPhrases, op \in BinaryWords, r \in PlainOperands}
    \cup {Source(r \o <<op>> \o Parenthesised(e, 1)) :
              e \in GroupedPhrases, op \in BinaryWords, r \in PlainOperands}
    \cup {Source(Parenthesised(t, n) \o <<"=">> \o v) :
              t \in TargetPhrases, n \in 1..MaxParens, v \in TargetValues}
InitParens == InitWith(ParenInputs, {0})
SpecParens == InitParens /\ [][Next]_vars

\* Inputs of all-digit literals around i64::MAX, each with the canonical
\* numeral of its value and whether the value fits i64, known from how the
\* literal is built: the first 18 digits of i64::MAX and any last digit,
\* after up to MaxZeros zeros; i64::MAX with one more digit; the prefixes of
\* i64::MAX; i64::MAX with another second digit.  A literal stands alone,
\* after "-", after "x = " or before " + 1".
MaxZeros == 1
RECURSIVE Zeros(_)
Zeros(k) == IF k = 0 THEN <<>> ELSE <<"0">> \o Zeros(k - 1)
BoundaryNumerals ==
    {[ds |-> Zeros(k) \o SubSeq(I64MaxDigits, 1, 18) \o <<d>>,
      value |-> SubSeq(I64MaxDigits, 1, 18) \o <<d>>,
      fits |-> d \in {"0", "1", "2", "3", "4", "5", "6", "7"}] : k \in 0..MaxZeros, d \in Digit}
    \cup {[ds |-> I64MaxDigits \o <<d>>, value |-> I64MaxDigits \o <<d>>, fits |-> FALSE] :
              d \in Digit}
    \cup {[ds |-> SubSeq(I64MaxDigits, 1, j), value |-> SubSeq(I64MaxDigits, 1, j),
           fits |-> TRUE] : j \in 1..18}
    \cup {[ds |-> <<"9", d>> \o SubSeq(I64MaxDigits, 3, 19),
           value |-> <<"9", d>> \o SubSeq(I64MaxDigits, 3, 19),
           fits |-> d \in {"0", "1", "2"}] : d \in Digit}
NumeralContexts ==
    {[pre |-> <<>>, post |-> <<>>, before |-> 0, after |-> 0],
     [pre |-> <<"-">>, post |-> <<>>, before |-> 1, after |-> 0],
     [pre |-> <<"x", " ", "=", " ">>, post |-> <<>>, before |-> 2, after |-> 0],
     [pre |-> <<>>, post |-> <<" ", "+", " ", "1">>, before |-> 0, after |-> 2]}
NumeralInputs ==
    {c.pre \o n.ds \o c.post : n \in BoundaryNumerals, c \in NumeralContexts}
InitNumerals == InitWith(NumeralInputs, {0})
SpecNumerals == InitNumerals /\ [][Next]_vars

\* Inputs for repeated parse() calls: whole programs, and programs that
\* fail after the tokens of `head`, with `tail` left unread
WholePrograms ==
    {<<>>, <<"x">>, <<"x", ";", "y">>, <<"let", "a", "=", "1">>, <<"if", "c", "{", "}">>,
     <<"{", "x", "}", "y">>}
Broken(heads, tails) == {[head |-> h, tail |-> t] : h \in heads, t \in tails}
ResumeCases ==
    \* `let` with no name after it
    Broken({<<"let">>, <<"a", ";", "let">>},
           {<<>>, <<"1", ";", "x">>, <<"=", "1">>, <<"{", "y", "}">>})
    \* "=" with no value after it
    \cup Broken({<<"x", "=">>, <<"{", "x", ";", "y", "=">>},
                {<<>>, <<"=", "y">>, <<";", "y">>, <<")", "z">>})
    \* "(" and an expression with no ")" after it
    \cup Broken({<<"(", "x">>}, {<<>>, <<";", "y">>, <<"y">>, <<"}">>})
    \* `if` and a condition with no "{" after it
    \cup Broken({<<"if", "x">>}, {<<>>, <<"y", ";", "z">>, <<";", "z">>, <<"(", "y", ")">>})
    \* "=" after a target that is no name
    \cup Broken({<<"1", "=">>}, {<<>>, <<"2", ";", "z">>, <<"=", "3">>, <<"x">>})
    \* a token that starts no expression
    \cup Broken({<<>>, <<"x", ";">>}, {<<"=", "y">>, <<")", "x">>, <<"else", "{", "}">>})
    \* an unclosed block at the end of input
    \cup Broken({<<"{", "x">>, <<"if", "c", "{">>}, {<<>>})
ResumeInputs ==
    {Source(ws) : ws \in WholePrograms} \cup {Source(c.head \o c.tail) : c \in ResumeCases}
InitResume == InitWith(ResumeInputs, {0})
SpecResume == InitResume /\ [][Next]_vars

(***************************************************************************)
(* The claims                                                              *)
(***************************************************************************)
\* the state in which the first parse() has returned
Parsed == newOut.st = "Ok" /\ calls = 1

\* the token kinds of a source written as words
Kinds(toks) == [i \in 1..Len(toks) |-> toks[i].k]
TokensOf(ws) == ParserNew(Source(ws), 0).tokens

\* number of "{" minus number of "}" among toks[i..j]
RECURSIVE BraceDepth(_, _, _)
BraceDepth(toks, i, j) ==
    IF i > j THEN 0
    ELSE BraceDepth(toks, i, j - 1)
         + (IF toks[j].k = "LeftBrace" THEN 1
            ELSE IF toks[j].k = "RightBrace" THEN -1 ELSE 0)

\* some "{" of the buffer has no matching "}" before the end of input
HasUnclosedBrace(toks) ==
    \E i \in 1..Len(toks) :
        /\ toks[i].k = "LeftBrace"
        /\ \A j \in i..Len(toks) : BraceDepth(toks, i, j) > 0

\* C1: a block whose "}" is missing at the end of input is never returned
\* as a node: on a token buffer with an unclosed "{", parse() fails.
\* (The code accepts "{ { }": the closing check looks at the last token
\* consumed, which is the inner block's "}".)
C1_UnclosedBlockFails ==
    (Parsed /\ HasUnclosedBrace(tokens)) => parseOut.st = "Err"

\* the characters some token rule or the whitespace rule can match
RuleChars ==
    IdentChar \cup Whitespace
    \cup {"+", "-", "*", "/", "%", "=", "!", ">", "<", "&", "|",
          "(", ")", "{", "}", ";", ":", ".", Quote, Backslash}

FirstUnmatched(src) ==
    CHOOSE i \in 1..Len(src) :
        /\ src[i] \notin RuleChars
        /\ \A j \in 1..(i - 1) : src[j] \in RuleChars

\* C3: an input that holds a character no token rule matches (outside any
\* string literal: the input holds no quote) makes Parser::new fail with
\* UnexpectedCharacter of exactly that character; it is never made a token.
\* (The code turns a letter outside ASCII into an Identifier token.)
C3_UnmatchedCharacterFails ==
    (/\ newOut.st # "None"
     /\ \A i \in 1..Len(input) : input[i] # Quote
     /\ \E i \in 1..Len(input) : input[i] \notin RuleChars)
    => /\ newOut.st = "Err"
       /\ newOut.err = UnexpectedCharacter(input[FirstUnmatched(input)])

\* C4: Parser::new returns Ok or Err on every input; it never panics.
\* (The code slices slice[1..slice.len() - 1] of a failed slice that is a
\* lone double quote.)
C4_NewNeverPanics == newOut.st # "Panic"

\* the token under cursor `cur` is of kind `kind`
NextIs(toks, cur, kind) == cur < Len(toks) /\ toks[cur + 1].k = kind

IsIdentifierNode(v) == v.e = "Literal" /\ v.node.k = "Identifier"

\* the statement positions looked at: the start of the input (0) and the
\* position after a leading "{" (1)
StatementStarts == {0} \cup (IF NextIs(tokens, 0, "LeftBrace") THEN {1} ELSE {})

\* the outcome of parse() when its first error is that of result r
FailsWith(er) == parseOut.st = "Err" /\ parseOut.err = er

\* what C2 says of a target parsed by the logical-or rule at position k
C2_OrTarget(k) ==
    LET lhs == call("or", parser(tokens), k)
        value == call("assignment", parser(tokens), lhs.cur + 1)
    IN  (/\ ~NextIs(tokens, k, "KeywordLet")
         /\ lhs.ok
         /\ NextIs(tokens, lhs.cur, "Equals"))
        => IF ~IsIdentifierNode(lhs.val)
           THEN FailsWith(InvalidAssignment("target must be an identifier"))
           ELSE IF ~value.ok THEN FailsWith(value.err)
           ELSE /\ call("statement", parser(tokens), k).val = Assignment(lhs.val.node.s, value.val)
                /\ (k = 0 /\ parseOut.st = "Ok")
                       => parseOut.statements[1] = Assignment(lhs.val.node.s, value.val)
                /\ (k = 0 /\ value.cur = Len(tokens)) => parseOut.st = "Ok"

\* an `if` or `print` form that stands as a statement at k and is followed by `=`
FormThenEquals(k) ==
    /\ NextIs(tokens, k, "KeywordIf") \/ NextIs(tokens, k, "KeywordPrint")
    /\ call("expression", parser(tokens), k).ok
    /\ NextIs(tokens, call("expression", parser(tokens), k).cur, "Equals")

Openers ==
    {[kinds |-> <<"Identifier", "Semicolon">>, inner |-> "same"],
     [kinds |-> <<"LeftBrace">>, inner |-> "block"],
     [kinds |-> <<"LeftParen">>, inner |-> "expression"],
     [kinds |-> <<"KeywordIf", "Identifier", "LeftBrace">>, inner |-> "block"],
     [kinds |-> <<"KeywordIf", "Identifier", "LeftBrace", "RightBrace",
                  "KeywordElse", "LeftBrace">>, inner |-> "block"],
     [kinds |-> <<"KeywordLet", "Identifier", "Equals">>, inner |-> "assignment"]}

OpensAt(o, k) ==
    /\ k + Len(o.kinds) <= Len(tokens)
    /\ \A i \in 1..Len(o.kinds) : tokens[k + i].k = o.kinds[i]

\* a statement list takes `x ;`; a let value cannot start with `if`
Admissible(o, ctx) ==
    /\ o.inner = "same" => ctx \in {"top", "block"}
    /\ o.kinds[1] = "KeywordIf" => ctx # "assignment"

\* The places <<k, rule>> where the descent from the start of the input
\* through openers calls a rule: a statement list (top level or block) calls
\* the statement rule unless it is at its end.
RECURSIVE Sites(_, _)
Sites(k, ctx) ==
    LET here ==
            IF ctx \in {"top", "block"}
            THEN IF k >= Len(tokens) \/ (ctx = "block" /\ NextIs(tokens, k, "RightBrace"))
                 THEN {} ELSE {<<k, "statement">>}
            ELSE {<<k, ctx>>}
    IN  here \cup UNION {Sites(k + Len(o.kinds), IF o.inner = "same" THEN ctx ELSE o.inner) :
                           o \in {o \in Openers : OpensAt(o, k) /\ Admissible(o, ctx)}}

\* C5: the first error aborts the whole parse: when a rule called at any
\* nesting depth (in a block, a parenthesis, an if or else branch, a let
\* value, after earlier statements) raises an error, parse() returns exactly
\* that error and no statements.
C5_FirstErrorAborts ==
    Parsed => \A site \in Sites(0, "top") :
        LET r == call(site[2], parser(tokens), site[1])
        IN  ~r.ok => /\ parseOut = [st |-> "Err", statements |-> <<>>, err |-> r.err]
                     /\ current = r.cur

\* C5's case: after a statement that parsed, an error raised in a
\* parenthesis in a block came out of parse() unchanged
C5_Witness ==
    /\ Parsed
    /\ Kinds(tokens) = <<"Identifier", "Semicolon", "LeftBrace", "LeftParen", "RightParen">>
    /\ <<4, "expression">> \in Sites(0, "top")
    /\ parseOut = [st |-> "Err", statements |-> <<>>,
                   err |-> UnexpectedToken(Tok("RightParen"))]

\* toks from token i on, split at each ";" outside every bracket: `depth`
\* brackets are open and `piece` holds the tokens of the piece so far
RECURSIVE Pieces(_, _, _, _)
Pieces(toks, i, depth, piece) ==
    IF i > Len(toks) THEN <<piece>>
    ELSE IF toks[i].k = "Semicolon" /\ depth = 0
    THEN <<piece>> \o Pieces(toks, i + 1, 0, <<>>)
    ELSE Pieces(toks, i + 1,
                CASE toks[i].k \in {"LeftBrace", "LeftParen"} -> depth + 1
                  [] toks[i].k \in {"RightBrace", "RightParen"} -> depth - 1
                  [] OTHER -> depth,
                Append(piece, toks[i]))

\* the statements of a list: its pieces, a ";" after the last one being optional
StatementsOf(toks) ==
    LET ps == Pieces(toks, 1, 0, <<>>)
    IN  IF ps[Len(ps)] = <<>> THEN SubSeq(ps, 1, Len(ps) - 1) ELSE ps

\* the piece is one well-formed statement: the statement rule takes all of it
WellFormed(piece) ==
    /\ Len(piece) > 0
    /\ call("statement", parser(piece), 0).ok
    /\ call("statement", parser(piece), 0).cur = Len(piece)

\* the trees of the well-formed statements ps, each parsed on its own
TreesOf(ps) == [i \in 1..Len(ps) |-> call("statement", parser(ps[i]), 0).val]

AllWellFormed(ps) == \A i \in 1..Len(ps) : WellFormed(ps[i])

\* the tokens between a leading "{" and a final "}"
Inner(toks) ==
    IF Len(toks) >= 2 /\ toks[1].k = "LeftBrace" /\ toks[Len(toks)].k = "RightBrace"
    THEN <<SubSeq(toks, 2, Len(toks) - 1)>>
    ELSE <<>>

\* C6: statement separation is order-preserving: for n well-formed
\* statements separated by ";", with or without a ";" after the last one,
\* parse() returns the n trees of the statements in source order; the
\* statement list of a brace block gives a Block node with one child per
\* statement, in order.
C6_StatementsInOrder ==
    Parsed =>
        /\ AllWellFormed(StatementsOf(tokens)) =>
               parseOut = [st |-> "Ok", statements |-> TreesOf(StatementsOf(tokens)),
                           err |-> NoError]
        /\ \A inner \in {Inner(tokens)[i] : i \in 1..Len(Inner(tokens))} :
               AllWellFormed(StatementsOf(inner)) =>
                   parseOut = [st |-> "Ok",
                               statements |-> <<Block(TreesOf(StatementsOf(inner)))>>,
                               err |-> NoError]

\* C6's case: three statements, the last one followed by ";", gave three
\* trees in source order
C6_Witness ==
    /\ Parsed
    /\ Kinds(tokens) = <<"KeywordLet", "Identifier", "Equals", "Integer", "Semicolon",
                         "Identifier", "Semicolon",
                         "Identifier", "Plus", "Identifier", "Semicolon">>
    /\ Len(StatementsOf(tokens)) = 3
    /\ Len(parseOut.statements) = 3
    /\ parseOut.statements[1].e = "LetDeclaration"
    /\ parseOut.statements[2].e = "Literal"
    /\ parseOut.statements[3].e = "Binary"

\* C6's case in a block: two statements in a block gave a Block of two children
C6_BlockWitness ==
    /\ Parsed
    /\ Kinds(tokens) = <<"LeftBrace", "Identifier", "Semicolon",
                         "Identifier", "Equals", "Integer", "RightBrace">>
    /\ Len(parseOut.statements) = 1
    /\ Len(parseOut.statements[1].statements) = 2
    /\ parseOut.statements[1].statements[2].e = "Assignment"

\* the precedence group of the binary operator token `kind`, 1 the loosest
Group(kind) ==
    CASE kind = "Or" -> 1
      [] kind = "And" -> 2
      [] kind \in {"EqualsEquals", "NotEquals"} -> 3
      [] kind \in {"GreaterThan", "GreaterThanEquals", "LessThan", "LessThanEquals"} -> 4
      [] kind \in {"Plus", "Minus"} -> 5
      [] kind \in {"Star", "Slash", "Percent"} -> 6
      [] OTHER -> 0

\* the BinaryOp the operator token `kind` stands for
OperatorOf(kind) ==
    CASE kind = "Or" -> "Or"
      [] kind = "And" -> "And"
      [] kind = "EqualsEquals" -> "Equal"
      [] kind = "NotEquals" -> "NotEqual"
      [] kind = "GreaterThan" -> "Greater"
      [] kind = "GreaterThanEquals" -> "GreaterEqual"
      [] kind = "LessThan" -> "Less"
      [] kind = "LessThanEquals" -> "LessEqual"
      [] kind = "Plus" -> "Add"
      [] kind = "Minus" -> "Subtract"
      [] kind = "Star" -> "Multiply"
      [] kind = "Slash" -> "Divide"
      [] kind = "Percent" -> "Modulo"

\* the leaf of the operand token at index i
Leaf(i) == Literal(tokens[i].k, tokens[i])

\* tokens are operands with a binary operator between each two
IsChain ==
    /\ Len(tokens) % 2 = 1
    /\ \A i \in 1..Len(tokens) :
           IF i % 2 = 1 THEN tokens[i].k \in {"Identifier", "Integer"}
           ELSE Group(tokens[i].k) > 0

ParsesTo(tree) == parseOut = [st |-> "Ok", statements |-> <<tree>>, err |-> NoError]

\* C7: binary operators nest by precedence group: in `a lo b hi c` with hi
\* of a strictly higher group than lo the tree is Binary(a, lo, Binary(b, hi,
\* c)); in `a hi b lo c` it is Binary(Binary(a, hi, b), lo, c).
C7_PrecedenceGroups ==
    (Parsed /\ IsChain /\ Len(tokens) = 5) =>
        /\ Group(tokens[2].k) < Group(tokens[4].k) =>
               ParsesTo(Binary(Leaf(1), OperatorOf(tokens[2].k),
                               Binary(Leaf(3), OperatorOf(tokens[4].k), Leaf(5))))
        /\ Group(tokens[2].k) > Group(tokens[4].k) =>
               ParsesTo(Binary(Binary(Leaf(1), OperatorOf(tokens[2].k), Leaf(3)),
                               OperatorOf(tokens[4].k), Leaf(5)))

\* C7's case: `a == b < c` gave Binary(a, Equal, Binary(b, Less, c))
C7_Witness ==
    /\ Parsed
    /\ Kinds(tokens) = <<"Identifier", "EqualsEquals", "Identifier", "LessThan", "Identifier">>
    /\ ParsesTo(Binary(Leaf(1), "Equal", Binary(Leaf(3), "Less", Leaf(5))))

\* the left fold of the chain of the first n tokens
RECURSIVE LeftFold(_)
LeftFold(n) ==
    IF n = 1 THEN Leaf(1)
    ELSE Binary(LeftFold(n - 2), OperatorOf(tokens[n - 1].k), Leaf(n))

\* C8: every binary precedence level is left-associative: a chain of
\* operators of one group parses to the left fold of its operands.
C8_LeftAssociative ==
    (/\ Parsed
     /\ IsChain
     /\ \A i, j \in 1..Len(tokens) :
            (i % 2 = 0 /\ j % 2 = 0) => Group(tokens[i].k) = Group(tokens[j].k))
        => ParsesTo(LeftFold(Len(tokens)))

\* C8's case: `a - b + c` gave Binary(Binary(a, Subtract, b), Add, c)
C8_Witness ==
    /\ Parsed
    /\ Kinds(tokens) = <<"Identifier", "Minus", "Identifier", "Plus", "Identifier">>
    /\ ParsesTo(Binary(Binary(Leaf(1), "Subtract", Leaf(3)), "Add", Leaf(5)))

IsPrefix(i) == i <= Len(tokens) /\ tokens[i].k \in {"Minus", "Bang"}

\* the index of the first token from i on that is no prefix operator
RECURSIVE RunEnd(_)
RunEnd(i) == IF IsPrefix(i) THEN RunEnd(i + 1) ELSE i

\* a primary stands at index i: a literal or a parenthesised literal
IsPrimary(i) ==
    \/ i <= Len(tokens) /\ tokens[i].k \in {"Identifier", "Integer"}
    \/ /\ i + 2 <= Len(tokens)
       /\ tokens[i].k = "LeftParen"
       /\ tokens[i + 1].k \in {"Identifier", "Integer"}
       /\ tokens[i + 2].k = "RightParen"

PrimaryEnd(i) == IF tokens[i].k = "LeftParen" THEN i + 2 ELSE i
PrimaryTree(i) == IF tokens[i].k = "LeftParen" THEN Leaf(i + 1) ELSE Leaf(i)

\* the nested Unary nodes of the run at i over the primary after it
RECURSIVE UnaryNest(_)
UnaryNest(i) ==
    IF IsPrefix(i)
    THEN Unary(IF tokens[i].k = "Minus" THEN "Minus" ELSE "Not", UnaryNest(i + 1))
    ELSE PrimaryTree(i)

\* a binary operator and a literal operand stand after index i
HasTail(i) ==
    /\ i + 2 <= Len(tokens)
    /\ Group(tokens[i + 1].k) > 0
    /\ tokens[i + 2].k \in {"Identifier", "Integer"}

\* the expression at i is a run, a primary and at most one operator with
\* its operand, and ends at index `end`
IsPrefixExpr(i, end) ==
    /\ IsPrimary(RunEnd(i))
    /\ end = PrimaryEnd(RunEnd(i)) + (IF HasTail(PrimaryEnd(RunEnd(i))) THEN 2 ELSE 0)

PrefixExprTree(i) ==
    LET p == PrimaryEnd(RunEnd(i))
    IN  IF HasTail(p)
        THEN Binary(UnaryNest(i), OperatorOf(tokens[p + 1].k), Leaf(p + 2))
        ELSE UnaryNest(i)

\* C9: prefix operators are right-associative and bind tighter than every
\* binary operator: a run of k prefix operators before a primary gives k
\* nested Unary nodes in source order, a binary operator after it takes the
\* whole run as its left operand, and such an expression is accepted as the
\* condition of an `if`.
C9_PrefixOperators ==
    Parsed =>
        /\ IsPrefixExpr(1, Len(tokens)) => ParsesTo(PrefixExprTree(1))
        /\ (/\ Len(tokens) > 6
            /\ tokens[1].k = "KeywordIf"
            /\ IsPrefixExpr(2, Len(tokens) - 5)
            /\ SubSeq(Kinds(tokens), Len(tokens) - 4, Len(tokens))
                   = <<"LeftBrace", "RightBrace", "KeywordElse", "LeftBrace", "RightBrace">>)
               => ParsesTo(IfElse(PrefixExprTree(2), Block(<<>>), <<Block(<<>>)>>))

\* C9's case: `- ! a * b` gave Binary(Unary(Minus, Unary(Not, a)), Multiply, b)
C9_Witness ==
    /\ Parsed
    /\ Kinds(tokens) = <<"Minus", "Bang", "Identifier", "Star", "Identifier">>
    /\ ParsesTo(Binary(Unary("Minus", Unary("Not", Leaf(3))), "Multiply", Leaf(5)))

\* C9's case in a condition: `if ! a { } else { }` was accepted
C9_ConditionWitness ==
    /\ Parsed
    /\ Kinds(tokens) = <<"KeywordIf", "Bang", "Identifier", "LeftBrace", "RightBrace",
                         "KeywordElse", "LeftBrace", "RightBrace">>
    /\ ParsesTo(IfElse(Unary("Not", Leaf(3)), Block(<<>>), <<Block(<<>>)>>))

IsLeaf(i) ==
    i <= Len(tokens) /\ tokens[i].k \in {"Identifier", "Integer", "Float", "String", "Boolean"}

\* from index i on the tokens are `name =` any number of times and then a
\* value: a literal or `a || b`
RECURSIVE IsAssignChain(_)
IsAssignChain(i) ==
    IF i + 2 <= Len(tokens) /\ tokens[i].k = "Identifier" /\ tokens[i + 1].k = "Equals"
    THEN IsAssignChain(i + 2)
    ELSE \/ i = Len(tokens) /\ IsLeaf(i)
         \/ i + 2 = Len(tokens) /\ IsLeaf(i) /\ tokens[i + 1].k = "Or" /\ IsLeaf(i + 2)

\* the tree of such a chain: each `name =` takes all that follows as its value
RECURSIVE AssignChainTree(_)
AssignChainTree(i) ==
    IF i + 2 <= Len(tokens) /\ tokens[i].k = "Identifier" /\ tokens[i + 1].k = "Equals"
    THEN Assignment(tokens[i].s, AssignChainTree(i + 2))
    ELSE IF i = Len(tokens) THEN Leaf(i)
    ELSE Binary(Leaf(i), "Or", Leaf(i + 2))

\* C10: assignment is right-associative and the right-hand side of `=`, in
\* a plain assignment and in a `let`, is parsed by the full assignment
\* rule, which binds looser than logical-or: `a = b = e` gives
\* Assignment{a, Assignment{b, e}} and `x = a || b` gives
\* Assignment{x, Binary(a, Or, b)}.
C10_AssignmentRightAssociative ==
    Parsed =>
        /\ IsAssignChain(1) => ParsesTo(AssignChainTree(1))
        /\ (/\ Len(tokens) > 3
            /\ Kinds(SubSeq(tokens, 1, 3)) = <<"KeywordLet", "Identifier", "Equals">>
            /\ IsAssignChain(4))
               => ParsesTo(LetDeclaration(tokens[2].s, <<>>, AssignChainTree(4)))

\* C10's case: `y = y = 1` gave Assignment{y, Assignment{y, 1}}
C10_Witness ==
    /\ Parsed
    /\ Kinds(tokens) = <<"Identifier", "Equals", "Identifier", "Equals", "Integer">>
    /\ ParsesTo(Assignment(tokens[1].s, Assignment(tokens[3].s, Leaf(5))))

\* C10's case of a looser value: `y = a || b` gave Assignment{y, Binary(a, Or, b)}
C10_OrValueWitness ==
    /\ Parsed
    /\ Kinds(tokens) = <<"Identifier", "Equals", "Identifier", "Or", "Identifier">>
    /\ ParsesTo(Assignment(tokens[1].s, Binary(Leaf(3), "Or", Leaf(5))))

\* C10's case in a `let`: `let z = y = 1` gave LetDeclaration{z, Assignment{y, 1}}
C10_LetWitness ==
    /\ Parsed
    /\ Kinds(tokens) = <<"KeywordLet", "Identifier", "Equals", "Identifier", "Equals",
                         "Integer">>
    /\ ParsesTo(LetDeclaration(tokens[2].s, <<>>, Assignment(tokens[4].s, Leaf(6))))

\* the tokens start with the kinds ks
StartsWith(ks) == Len(tokens) >= Len(ks) /\ SubSeq(Kinds(tokens), 1, Len(ks)) = ks

\* the value of a `let` declaration or of a plain assignment begins with `let`
ValueBeginsWithLet ==
    \/ StartsWith(<<"KeywordLet", "Identifier", "Equals", "KeywordLet">>)
    \/ StartsWith(<<"Identifier", "Equals", "KeywordLet">>)

\* C11: chained `let` is not allowed: when the right-hand side of a `let`
\* declaration or of a plain assignment begins with `let`, parse() fails.
C11_NoChainedLet == (Parsed /\ ValueBeginsWithLet) => parseOut.st = "Err"

\* the index of the first "{" outside every parenthesis from index i on
\* (`depth` parentheses open), 0 if there is none
RECURSIVE OpenBrace(_, _)
OpenBrace(i, depth) ==
    IF i > Len(tokens) THEN 0
    ELSE IF tokens[i].k = "LeftBrace" /\ depth = 0 THEN i
    ELSE OpenBrace(i + 1, CASE tokens[i].k = "LeftParen" -> depth + 1
                            [] tokens[i].k = "RightParen" -> depth - 1
                            [] OTHER -> depth)

\* the index of the "}" that closes the `depth` braces open before index i,
\* 0 if there is none
RECURSIVE CloseBrace(_, _)
CloseBrace(i, depth) ==
    IF i > Len(tokens) THEN 0
    ELSE IF tokens[i].k = "RightBrace" /\ depth = 1 THEN i
    ELSE CloseBrace(i + 1, CASE tokens[i].k = "LeftBrace" -> depth + 1
                             [] tokens[i].k = "RightBrace" -> depth - 1
                             [] OTHER -> depth)

\* the piece is one well-formed expression: the expression rule takes all of it
WellFormedExpr(piece) ==
    /\ Len(piece) > 0
    /\ call("expression", parser(piece), 0).ok
    /\ call("expression", parser(piece), 0).cur = Len(piece)

\* the Block of the well-formed statements between the braces at p and q
BlockBetween(p, q) == Block(TreesOf(StatementsOf(SubSeq(tokens, p + 1, q - 1))))

WellFormedBetween(p, q) == AllWellFormed(StatementsOf(SubSeq(tokens, p + 1, q - 1)))

\* the "{" that opens the then-block of a conditional and the "}" that closes it
ThenOpen == OpenBrace(2, 0)
ThenClose == CloseBrace(ThenOpen + 1, 1)

\* the tokens are `if`, a well-formed condition and a closed then-block of
\* well-formed statements
IsConditional ==
    /\ StartsWith(<<"KeywordIf">>)
    /\ ThenOpen > 2
    /\ WellFormedExpr(SubSeq(tokens, 2, ThenOpen - 1))
    /\ ThenClose > 0
    /\ WellFormedBetween(ThenOpen, ThenClose)

ConditionTree == call("expression", parser(SubSeq(tokens, 2, ThenOpen - 1)), 0).val

\* an else-block of well-formed statements follows the then-block and ends the input
HasElseBlock ==
    /\ ThenClose + 3 <= Len(tokens)
    /\ tokens[ThenClose + 1].k = "KeywordElse"
    /\ tokens[ThenClose + 2].k = "LeftBrace"
    /\ CloseBrace(ThenClose + 3, 1) = Len(tokens)
    /\ WellFormedBetween(ThenClose + 2, Len(tokens))

\* C12: a conditional distinguishes an absent else from an empty one:
\* without `else` the else_branch is None, with `else { ... }` it is
\* Some(Block); the then-branch and the else-branch are Block nodes also when
\* they hold no statement, and the condition is the whole expression between
\* `if` and `{`.
C12_ElseBranch ==
    (Parsed /\ IsConditional) =>
        /\ ThenClose = Len(tokens) =>
               ParsesTo(IfElse(ConditionTree, BlockBetween(ThenOpen, ThenClose), <<>>))
        /\ HasElseBlock =>
               ParsesTo(IfElse(ConditionTree, BlockBetween(ThenOpen, ThenClose),
                               <<BlockBetween(ThenClose + 2, Len(tokens))>>))

\* C12's case: `if x { }` gave an empty then-block and no else-branch
C12_Witness ==
    /\ Parsed
    /\ Kinds(tokens) = <<"KeywordIf", "Identifier", "LeftBrace", "RightBrace">>
    /\ ParsesTo(IfElse(Leaf(2), Block(<<>>), <<>>))

\* C12's case with an empty else: `if x { } else { }` gave Some(Block([]))
C12_EmptyElseWitness ==
    /\ Parsed
    /\ Kinds(tokens) = <<"KeywordIf", "Identifier", "LeftBrace", "RightBrace",
                         "KeywordElse", "LeftBrace", "RightBrace">>
    /\ ParsesTo(IfElse(Leaf(2), Block(<<>>), <<Block(<<>>)>>))

\* the Types variant a type name stands for
TypeOf(w) ==
    CASE w = "i32" -> "I32"
      [] w = "i64" -> "I64"
      [] w = "f32" -> "F32"
      [] w = "f64" -> "F64"
      [] w = "bool" -> "Bool"
      [] w = "String" -> "String"

\* the input is the declaration of `name` with annotation `ann` and value
\* `value`, with or without a final ";"
IsLet(name, ann, value) ==
    \E last \in {<<>>, <<";">>} :
        input = Source(<<"let", name>> \o ann \o <<"=">> \o value \o last)

\* Expr::Literal(Nodes::Integer(n)) for the all-digit literal w
IntegerLeaf(w) ==
    [e |-> "Literal", node |-> [k |-> "Integer", s |-> StripLeadingZeros(Spell(w)), b |-> FALSE]]

\* the node the value phrase gives when parsed on its own
ValueTree(value) == call("assignment", parser(TokensOf(value)), 0).val

\* what C13 says of annotated declarations: var_type is Some(T), identifier
\* and value node are those of the declaration without annotation
C13_Annotated ==
    \A name \in LetNames, ty \in TypeWords, value \in ValuePhrases :
        IsLet(name, <<":", ty>>, value) =>
            ParsesTo(LetDeclaration(Spell(name), <<TypeOf(ty)>>, ValueTree(value)))

\* C13 as claimed: `let <name> = <integer literal>` gives
\* LetDeclaration{name, None, Integer(n)} for every integer literal; an
\* annotation T is recorded as Some(T) whatever the value.
C13_Original ==
    Parsed =>
        /\ \A name \in LetNames, w \in IntegerWords :
               IsLet(name, <<>>, <<w>>) =>
                   ParsesTo(LetDeclaration(Spell(name), <<>>, IntegerLeaf(w)))
        /\ C13_Annotated

\* C13 as amended: the same for integer literals whose value fits i64; an
\* all-digit literal above i64::MAX gives a Float leaf, not Integer(n).
C13_LetRecordsAnnotation ==
    Parsed =>
        /\ \A name \in LetNames, w \in IntegerWords :
               IsLet(name, <<>>, <<w>>) =>
                   IF FitsI64(Spell(w))
                   THEN ParsesTo(LetDeclaration(Spell(name), <<>>, IntegerLeaf(w)))
                   ELSE /\ parseOut.st = "Ok"
                        /\ Len(parseOut.statements) = 1
                        /\ parseOut.statements[1].e = "LetDeclaration"
                        /\ parseOut.statements[1].identifier = Spell(name)
                        /\ parseOut.statements[1].var_type = <<>>
                        /\ parseOut.statements[1].value.e = "Literal"
                        /\ parseOut.statements[1].value.node.k = "Float"
        /\ C13_Annotated

\* C13's case: `let x : bool = 42` gave var_type Some(Bool) and Integer(42)
C13_Witness ==
    /\ Parsed
    /\ input = Source(<<"let", "x", ":", "bool", "=", "42">>)
    /\ ParsesTo(LetDeclaration(<<"x">>, <<"Bool">>, IntegerLeaf("42")))

\* a `print` keyword stands at the statement position k
PrintAt(k) == NextIs(tokens, k, "KeywordPrint")

\* the expression after `print (` at k, as the logical-or rule parses it
PrintInner(k) == call("or", parser(tokens), k + 2)

C14_MissingParenWitness ==
    /\ Parsed
    /\ Kinds(tokens) = <<"KeywordPrint", "Identifier">>
    /\ FailsWith(ExpectedAfter("(", "print"))

\* C14's case at end of input: `print` alone failed with ExpectedAfter("(", "print")
C14_EndOfInputWitness ==
    /\ Parsed
    /\ Kinds(tokens) = <<"KeywordPrint">>
    /\ FailsWith(ExpectedAfter("(", "print"))

\* C14's case of a missing ")": `print ( x` failed with the expected-")" error
C14_MissingCloseWitness ==
    /\ Parsed
    /\ Kinds(tokens) = <<"KeywordPrint", "LeftParen", "Identifier">>
    /\ FailsWith(ExpectedAfterCustom(")", "print", "expression"))

\* some Print node of the tree has an Assignment or a LetDeclaration as its
\* direct child
RECURSIVE PrintsAssignment(_)
PrintsAssignment(node) ==
    CASE node.e = "Print" ->
             node.expr.e \in {"Assignment", "LetDeclaration"} \/ PrintsAssignment(node.expr)
      [] node.e = "Binary" -> PrintsAssignment(node.left) \/ PrintsAssignment(node.right)
      [] node.e = "Unary" -> PrintsAssignment(node.operand)
      [] node.e \in {"Assignment", "LetDeclaration"} -> PrintsAssignment(node.value)
      [] node.e = "IfElse" ->
             \/ PrintsAssignment(node.condition)
             \/ PrintsAssignment(node.then_branch)
             \/ \E i \in 1..Len(node.else_branch) : PrintsAssignment(node.else_branch[i])
      [] node.e = "Block" ->
             \E i \in 1..Len(node.statements) : PrintsAssignment(node.statements[i])
      [] OTHER -> FALSE

ResultPrintsAssignment ==
    \E i \in 1..Len(parseOut.statements) : PrintsAssignment(parseOut.statements[i])

\* a bare assignment or a `let` stands directly after `print (` at k
BareAssignmentInPrint(k) ==
    /\ PrintAt(k)
    /\ NextIs(tokens, k + 1, "LeftParen")
    /\ \/ NextIs(tokens, k + 2, "KeywordLet")
       \/ NextIs(tokens, k + 2, "Identifier") /\ NextIs(tokens, k + 3, "Equals")

\* C15 as claimed: a bare assignment or a `let` directly inside the print
\* parentheses makes parse() fail, and no Print node ever has an Assignment
\* or a LetDeclaration as its direct child.
C15_Original ==
    Parsed =>
        /\ \A k \in StatementStarts : BareAssignmentInPrint(k) => parseOut.st = "Err"
        /\ ~ResultPrintsAssignment

\* C15 as amended: a bare assignment or a `let` directly inside the print
\* parentheses makes parse() fail; a Print node has an Assignment or a
\* LetDeclaration as its direct child only when that stands in parentheses
\* of its own, as in `print ( ( x = 1 ) )`.
C15_PrintInnerGrammar ==
    Parsed =>
        /\ \A k \in StatementStarts : BareAssignmentInPrint(k) => parseOut.st = "Err"
        /\ ResultPrintsAssignment =>
               \E i \in 1..Len(tokens) - 2 :
                   /\ tokens[i].k = "KeywordPrint"
                   /\ tokens[i + 1].k = "LeftParen"
                   /\ tokens[i + 2].k = "LeftParen"

\* C15's case: `print ( x = 1 )` failed at the `=`
C15_Witness ==
    /\ Parsed
    /\ Kinds(tokens) = <<"KeywordPrint", "LeftParen", "Identifier", "Equals", "Integer",
                         "RightParen">>
    /\ FailsWith(ExpectedAfterCustom(")", "print", "expression"))

\* C15's case in parentheses: `print ( ( x = 1 ) )` gave Print(Assignment{x, 1})
C15_ParenthesisedWitness ==
    /\ Parsed
    /\ Kinds(tokens) = <<"KeywordPrint", "LeftParen", "LeftParen", "Identifier", "Equals",
                         "Integer", "RightParen", "RightParen">>
    /\ ParsesTo(PrintExpr(Assignment(tokens[4].s, Leaf(6))))

\* C16: a `print` keyword followed directly by a string literal, with no
\* parentheses, is accepted: Parser::new and parse() succeed and the
\* statements hold the print of that string.
C16_PrintStringWithoutParentheses ==
    (Parsed /\ Kinds(tokens) = <<"KeywordPrint", "String">>) =>
        /\ parseOut.st = "Ok"
        /\ \E i \in 1..Len(parseOut.statements) :
               parseOut.statements[i] = PrintExpr(Leaf(2))

\* the input begins `let <name> :`
AnnotatedLet == StartsWith(<<"KeywordLet", "Identifier", "Colon">>)

\* the token after the colon, if any
AfterColonToken == IF Len(tokens) >= 4 THEN <<tokens[4]>> ELSE <<>>

TypeKinds == {"TypeI32", "TypeI64", "TypeBool", "TypeF32", "TypeF64", "TypeString"}

\* a type keyword, or an identifier naming a primitive
NamesType(token) ==
    \/ token.k \in TypeKinds
    \/ token.k = "Identifier" /\ token.s \in {Spell(ty) : ty \in TypeWords}

\* the error parse_type makes for a name that is no primitive
IsUnknownTypeError(er) == er.code = "UnexpectedToken" /\ er.a = "unknown type: "

\* C17 as claimed: after `let <name> :`, every token that names no type,
\* and the end of the input, make parse() fail with the unknown-type error.
C17_Original ==
    (/\ Parsed
     /\ AnnotatedLet
     /\ \A i \in 1..Len(AfterColonToken) : ~NamesType(AfterColonToken[i])) =>
        parseOut.st = "Err" /\ IsUnknownTypeError(parseOut.err)

\* C17: after `let <name> :`, an identifier that names no primitive makes
\* parse() fail with the unknown-type error carrying that name; any other
\* token that is no type, and the end of the input, make it fail with
\* ExpectedToken("type"); a type keyword or an identifier naming a primitive
\* makes neither error.
C17_TypeErrors ==
    (Parsed /\ AnnotatedLet) =>
        IF AfterColonToken = <<>>
        THEN FailsWith(ExpectedToken("type"))
        ELSE LET token == AfterColonToken[1]
             IN  CASE NamesType(token) ->
                        \/ parseOut.st = "Ok"
                        \/ /\ ~IsUnknownTypeError(parseOut.err)
                           /\ parseOut.err # ExpectedToken("type")
                   [] token.k = "Identifier" /\ ~NamesType(token) ->
                        FailsWith(UnknownType(token))
                   [] OTHER -> FailsWith(ExpectedToken("type"))

\* `let x : 1 = 1`: a literal after the colon
C17_Witness ==
    /\ Parsed
    /\ input = Source(<<"let", "x", ":", "1", "=", "1">>)
    /\ FailsWith(ExpectedToken("type"))

\* `let x : int = 1`: a name that is no primitive
C17_UnknownNameWitness ==
    /\ Parsed
    /\ input = Source(<<"let", "x", ":", "int", "=", "1">>)
    /\ FailsWith(UnknownType(TokS("Identifier", Spell("int"))))

\* `let x :` and nothing more
C17_EndOfInputWitness ==
    /\ Parsed
    /\ input = Source(<<"let", "x", ":">>)
    /\ FailsWith(ExpectedToken("type"))

\* the token of a looping keyword
LoopToken(kw) == IF kw = "while" THEN Tok("KeywordWhile") ELSE Tok("KeywordFor")

HasLoopToken == \E i \in 1..Len(tokens) : tokens[i].k \in {"KeywordWhile", "KeywordFor"}

\* C18: a `while` or `for` token met where an expression is expected (at a
\* statement start, as an operand, inside a block or parentheses, as a
\* value, as a condition) makes parse() fail with UnexpectedToken naming
\* that token, whatever follows; no input holding one parses, so no node is
\* built from them.
C18_NoLoopProduction ==
    Parsed =>
        /\ \A pre \in ExpressionPrefixes, kw \in LoopWords, rest \in LoopRests :
               input = Source(pre \o <<kw>> \o rest) =>
                   FailsWith(UnexpectedToken(LoopToken(kw)))
        /\ HasLoopToken => (parseOut.st = "Err" /\ parseOut.statements = <<>>)

\* `{ x ; while ( x ) { }`: the keyword at a statement start inside a block
C18_Witness ==
    /\ Parsed
    /\ input = Source(<<"{", "x", ";", "while", "(", "x", ")", "{", "}">>)
    /\ FailsWith(UnexpectedToken(Tok("KeywordWhile")))

\* `1 + for`: the keyword as an operand
C18_OperandWitness ==
    /\ Parsed
    /\ input = Source(<<"1", "+", "for">>)
    /\ FailsWith(UnexpectedToken(Tok("KeywordFor")))

\* `if c while x`: the keyword where `{` is expected makes another error
C18_ElsewhereWitness ==
    /\ Parsed
    /\ input = Source(<<"if", "c", "while", "x">>)
    /\ FailsWith(ExpectedAfter("{", "if condition"))

\* the run under way is over: Parser::new failed or the first parse() has
\* returned
RunOver == newOut.st \in {"Err", "Panic"} \/ calls = 1

C19_ErrorWitness ==
    /\ earlier # <<>>
    /\ RunOver
    /\ parseOut.st = "Err"
    /\ earlier[1].parse.st = "Err"

\* two runs in which Parser::new failed
C19_LexicalWitness ==
    /\ earlier # <<>>
    /\ newOut.st = "Err"
    /\ earlier[1].new.st = "Err"

\* the character an escape sequence `\c` stands for
Escaped(c) ==
    CASE c = "n" -> "\n"
      [] c = "r" -> "\r"
      [] c = "t" -> "\t"
      [] OTHER -> c

\* one left-to-right scan that decodes each escape sequence once
RECURSIVE DecodeOnce(_)
DecodeOnce(content) ==
    IF Len(content) = 0 THEN <<>>
    ELSE IF Head(content) = Backslash /\ Len(content) >= 2
         THEN <<Escaped(content[2])>> \o DecodeOnce(SubSeq(content, 3, Len(content)))
         ELSE <<Head(content)>> \o DecodeOnce(Tail(content))

\* the whole input is one literal the String rule accepts
IsStringLiteral ==
    /\ Len(input) >= 2
    /\ input[1] = Quote
    /\ ScanString(input, 2) = [ok |-> TRUE, at |-> Len(input)]

\* C20: the payload of the String token of an accepted literal is the text
\* between the quotes with each escape sequence decoded once, in one scan
\* from left to right.
C20_EscapesDecodedOnce ==
    (newOut.st # "None" /\ IsStringLiteral) =>
        /\ newOut.st = "Ok"
        /\ tokens = <<TokS("String", DecodeOnce(SubSeq(input, 2, Len(input) - 1)))>>

\* the literal "a\n" is accepted and decoded to `a` and a line feed
C20_EscapeWitness ==
    /\ newOut.st = "Ok"
    /\ input = <<Quote, "a", Backslash, "n", Quote>>
    /\ tokens = <<TokS("String", <<"a", "\n">>)>>

\* the input holds, outside any string literal (it holds no quote), a
\* character that no token rule matches
HasUnmatchedCharacter ==
    /\ \A i \in 1..Len(input) : input[i] # Quote
    /\ \E i \in 1..Len(input) : input[i] \notin RuleChars

\* C21: an input with a lexical error anywhere never reaches the parser:
\* Parser::new fails with UnexpectedCharacter and parse() reports nothing,
\* whatever syntax error stands before the character.
\* (The code makes a letter outside ASCII an Identifier and parses on:
\* `= é` fails in parse() with UnexpectedToken.)
C21_LexicalErrorFirst ==
    (newOut.st # "None" /\ HasUnmatchedCharacter) =>
        /\ newOut.st = "Err"
        /\ newOut.err.code = "UnexpectedCharacter"
        /\ parseOut.st = "None"

\* the part of C21 that holds: a character that no rule matches and that
\* Parser::new does not classify again (it is no letter and no digit) ends
\* Parser::new with UnexpectedCharacter, and parse() is never reached, also
\* when a syntax error stands before it.
C21_RejectedCharacterFirst ==
    (/\ newOut.st # "None"
     /\ \A i \in 1..Len(input) : input[i] # Quote
     /\ \E i \in 1..Len(input) : input[i] \notin RuleChars /\ ~is_alphanumeric(input[i])) =>
        /\ newOut.st = "Err"
        /\ newOut.err.code = "UnexpectedCharacter"
        /\ parseOut.st = "None"

\* `= @`: the "=" alone would be a syntax error
C21_RejectedWitness ==
    /\ input = <<"=", " ", "@">>
    /\ newOut = [st |-> "Err", err |-> UnexpectedCharacter("@")]
    /\ parseOut.st = "None"

\* what parse() returns on the source written as the words ws
ParseOf(ws) ==
    LET r == parse(parser(TokensOf(ws)), 0)
    IN  [st |-> IF r.ok THEN "Ok" ELSE "Err", statements |-> r.statements, err |-> r.err]

\* the words are one well-formed statement
WellFormedWords(ws) == WellFormed(TokensOf(ws))

\* tokens that carry on the statement before them: the binary operators and "="
ContinuationWords ==
    BinaryWords \cup {"="}

\* s1 and s2 are well-formed statements and s2 does not begin with a token
\* that continues s1
Juxtaposable(s1, s2) ==
    /\ s2[1] \notin ContinuationWords
    /\ WellFormedWords(s1)
    /\ WellFormedWords(s2)

\* the trees of s1 and s2, each parsed on its own
PairTrees(s1, s2) == TreesOf(<<TokensOf(s1), TokensOf(s2)>>)

\* C22: the ";" between two statements is optional: `s1 s2` parses to what
\* `s1 ; s2` parses to, the trees of s1 and s2 in order, at top level and
\* inside a block, when s2 does not begin with a token that continues s1.
C22_SemicolonOptional ==
    Parsed =>
        \A s1 \in FirstPhrases, s2 \in SecondPhrases :
            /\ (input = Source(s1 \o s2) /\ Juxtaposable(s1, s2)) =>
                   /\ parseOut = ParseOf(s1 \o <<";">> \o s2)
                   /\ parseOut = [st |-> "Ok", statements |-> PairTrees(s1, s2),
                                  err |-> NoError]
            /\ (input = Source(<<"{">> \o s1 \o s2 \o <<"}">>) /\ Juxtaposable(s1, s2)) =>
                   /\ parseOut = ParseOf(<<"{">> \o s1 \o <<";">> \o s2 \o <<"}">>)
                   /\ parseOut = [st |-> "Ok", statements |-> <<Block(PairTrees(s1, s2))>>,
                                  err |-> NoError]

\* `let y = 1 z`: a declaration and a name with nothing between them
C22_Witness ==
    /\ Parsed
    /\ input = Source(<<"let", "y", "=", "1", "z">>)
    /\ parseOut.st = "Ok"
    /\ Len(parseOut.statements) = 2
    /\ parseOut.statements[1].e = "LetDeclaration"
    /\ parseOut.statements[2] = Leaf(5)

\* `{ x ( z ) }`: two statements in a block with nothing between them
C22_BlockWitness ==
    /\ Parsed
    /\ input = Source(<<"{", "x", "(", "z", ")", "}">>)
    /\ parseOut = [st |-> "Ok", statements |-> <<Block(<<Leaf(2), Leaf(4)>>)>>,
                   err |-> NoError]

\* `x - 1` is one statement where `x ; - 1` is two: "-" continues `x`
C22_ContinuationWitness ==
    /\ Parsed
    /\ input = Source(<<"x", "-", "1">>)
    /\ Len(parseOut.statements) = 1
    /\ Len(ParseOf(<<"x", ";", "-", "1">>).statements) = 2

\* the grammar rules of the dispatcher
Rules ==
    {"statement", "expression", "assignment", "or", "and", "equality", "comparison",
     "term", "factor", "unary", "primary", "if_else", "print", "else_part",
     "block", "if-block", "else-block"}

\* every rule started at any cursor of the buffer leaves the cursor at or
\* after its start and within the buffer, whether it succeeds or fails
RulesMoveForward ==
    \A rule \in Rules, k \in 0..Len(tokens) :
        call(rule, parser(tokens), k).cur \in k..Len(tokens)

\* the cursor primitives at every cursor of the buffer: advance moves by one
\* token, and not at all at the end of input; match_token moves by one token
\* or not at all
PrimitivesMoveForward ==
    /\ advance(parser(tokens), Len(tokens)) = Len(tokens)
    /\ \A k \in 0..(Len(tokens) - 1) :
           /\ advance(parser(tokens), k) = k + 1
           /\ match_token(parser(tokens), k, tokens[k + 1].k).cur = k + 1
           /\ match_token(parser(tokens), k, "None").cur = k

CursorInBuffer ==
    /\ current \in 0..Len(tokens)
    /\ PrimitivesMoveForward
    /\ RulesMoveForward

\* C23: once the parser is constructed, the cursor stays between 0 and the
\* length of the token buffer, no rule and no primitive moves it backwards,
\* advance at the end of input leaves it where it is, and no step changes
\* the token buffer.
C23_CursorInvariant ==
    /\ [](newOut.st = "Ok" => CursorInBuffer)
    /\ [][newOut.st = "Ok" => (tokens' = tokens /\ current' >= current)]_vars

\* a failed parse() left the cursor inside the buffer, at the failing token
C23_Witness ==
    /\ calls = 1
    /\ parseOut.st = "Err"
    /\ 0 < current
    /\ current < Len(tokens)

\* two parse() calls were made and the cursor is at the end of the buffer
C23_EndWitness ==
    /\ calls = 2
    /\ Len(tokens) > 0
    /\ current = Len(tokens)

\* the number of statements pushed by the block loops that built the tree
\* `node` (a standalone block, a then-block, an else-block)
RECURSIVE Pushes(_), PushesOfAll(_)
Pushes(node) ==
    CASE node.e = "Block" -> Len(node.statements) + PushesOfAll(node.statements)
      [] node.e = "IfElse" ->
             Pushes(node.condition) + Pushes(node.then_branch) + PushesOfAll(node.else_branch)
      [] node.e = "Binary" -> Pushes(node.left) + Pushes(node.right)
      [] node.e = "Unary" -> Pushes(node.operand)
      [] node.e \in {"Assignment", "LetDeclaration"} -> Pushes(node.value)
      [] node.e = "Print" -> Pushes(node.expr)
      [] OTHER -> 0

PushesOfAll(nodes) ==
    IF Len(nodes) = 0 THEN 0 ELSE Pushes(Head(nodes)) + PushesOfAll(Tail(nodes))

\* C24: parse() returns Ok or Err; the statement rule, started at any
\* cursor, succeeds only past at least one more token, so the loop of
\* parse() and the loops of the blocks together push at most as many
\* statements as the buffer has tokens.
C24_StatementProgress ==
    newOut.st = "Ok" =>
        /\ \A k \in 0..Len(tokens) :
               LET s == call("statement", parser(tokens), k)
               IN  s.ok => s.cur > k
        /\ calls >= 1 =>
               /\ parseOut.st \in {"Ok", "Err"}
               /\ Len(parseOut.statements) + PushesOfAll(parseOut.statements) <= Len(tokens)

\* `if x { x ; y = 2 } else { x ; y = 2 }`: one statement at top level, two
\* pushed by the then-block loop and two by the else-block loop
C24_Witness ==
    /\ Parsed
    /\ input = Source(<<"if", "x", "{", "x", ";", "y", "=", "2", "}",
                        "else", "{", "x", ";", "y", "=", "2", "}">>)
    /\ parseOut.st = "Ok"
    /\ Len(parseOut.statements) = 1
    /\ PushesOfAll(parseOut.statements) = 4

\* C25: after the `else` of a conditional every token but "{", `if` among
\* them, and the end of input make parse() fail with
\* ExpectedAfter("{", "else"); after the condition every token but "{", and
\* the end of input, make it fail with ExpectedAfter("{", "if condition").
C25_BraceAfterElse ==
    Parsed =>
        \A cond \in ElseConditions, tail \in Tails :
            /\ input = Source(<<"if">> \o cond \o tail) =>
                   FailsWith(ExpectedAfter("{", "if condition"))
            /\ \A body \in ThenBodies :
                   input = Source(<<"if">> \o cond \o <<"{">> \o body \o <<"}", "else">> \o tail) =>
                       FailsWith(ExpectedAfter("{", "else"))

\* `if x { } else if d { }`: an else-if chain
C25_Witness ==
    /\ Parsed
    /\ input = Source(<<"if", "x", "{", "}", "else", "if", "d", "{", "}">>)
    /\ FailsWith(ExpectedAfter("{", "else"))

\* `if x { } else` and nothing more
C25_EndOfInputWitness ==
    /\ Parsed
    /\ input = Source(<<"if", "x", "{", "}", "else">>)
    /\ FailsWith(ExpectedAfter("{", "else"))

\* `if a == b ;`: the condition is not followed by "{"
C25_ConditionWitness ==
    /\ Parsed
    /\ input = Source(<<"if", "a", "==", "b", ";">>)
    /\ FailsWith(ExpectedAfter("{", "if condition"))

\* `if x { } else { x }`: with the "{" the conditional parses
C25_BraceWitness ==
    /\ Parsed
    /\ input = Source(<<"if", "x", "{", "}", "else", "{", "x", "}">>)
    /\ ParsesTo(IfElse(Leaf(2), Block(<<>>), <<Block(<<Leaf(7)>>)>>))

\* the identifiers of the `let` declarations of a tree, wherever they sit
RECURSIVE LetNamesOf(_)
LetNamesOf(node) ==
    CASE node.e = "LetDeclaration" -> {node.identifier} \cup LetNamesOf(node.value)
      [] node.e = "Assignment" -> LetNamesOf(node.value)
      [] node.e = "Binary" -> LetNamesOf(node.left) \cup LetNamesOf(node.right)
      [] node.e = "Unary" -> LetNamesOf(node.operand)
      [] node.e = "Print" -> LetNamesOf(node.expr)
      [] node.e = "IfElse" ->
             LetNamesOf(node.condition) \cup LetNamesOf(node.then_branch)
                 \cup UNION {LetNamesOf(node.else_branch[i]) : i \in 1..Len(node.else_branch)}
      [] node.e = "Block" ->
             UNION {LetNamesOf(node.statements[i]) : i \in 1..Len(node.statements)}
      [] OTHER -> {}

LetNamesOfAll(nodes) == UNION {LetNamesOf(nodes[i]) : i \in 1..Len(nodes)}

\* Name resolution alone, in traversal order (operands left to right, a
\* value before the name it is bound or assigned to, condition, then-branch,
\* else-branch, the statements of a block in order): `missing` is the first
\* name read or assigned while not in `defined`, if there is one, and
\* `defined` the names declared by the `let`s completed up to that point, or
\* up to the end.
RECURSIVE Resolve(_, _), ResolveAll(_, _, _)
Resolve(node, defined) ==
    CASE node.e = "Literal" ->
             IF node.node.k = "Identifier" /\ node.node.s \notin defined
             THEN [missing |-> <<node.node.s>>, defined |-> defined]
             ELSE [missing |-> <<>>, defined |-> defined]
      [] node.e = "Binary" -> ResolveAll(<<node.left, node.right>>, 1, defined)
      [] node.e = "Unary" -> Resolve(node.operand, defined)
      [] node.e = "Print" -> Resolve(node.expr, defined)
      [] node.e = "Assignment" ->
             LET v == Resolve(node.value, defined)
             IN  IF v.missing = <<>> /\ node.identifier \notin v.defined
                 THEN [missing |-> <<node.identifier>>, defined |-> v.defined]
                 ELSE v
      [] node.e = "LetDeclaration" ->
             LET v == Resolve(node.value, defined)
             IN  IF v.missing = <<>>
                 THEN [missing |-> <<>>, defined |-> v.defined \cup {node.identifier}]
                 ELSE v
      [] node.e = "IfElse" ->
             ResolveAll(<<node.condition, node.then_branch>> \o node.else_branch, 1, defined)
      [] node.e = "Block" -> ResolveAll(node.statements, 1, defined)

ResolveAll(nodes, i, defined) ==
    IF i > Len(nodes) THEN [missing |-> <<>>, defined |-> defined]
    ELSE LET r == Resolve(nodes[i], defined)
         IN  IF r.missing = <<>> THEN ResolveAll(nodes, i + 1, r.defined) ELSE r

\* every value of the tree is an integer: it holds no string and no float
\* literal, so no operator and no condition can be refused
RECURSIVE IntegersOnly(_)
IntegersOnly(node) ==
    CASE node.e = "Literal" -> node.node.k \in {"Integer", "Boolean", "Identifier"}
      [] node.e = "Binary" -> IntegersOnly(node.left) /\ IntegersOnly(node.right)
      [] node.e = "Unary" -> IntegersOnly(node.operand)
      [] node.e = "Print" -> FALSE
      [] node.e = "Assignment" -> IntegersOnly(node.value)
      [] node.e = "LetDeclaration" -> node.var_type = <<>> /\ IntegersOnly(node.value)
      [] node.e = "IfElse" ->
             /\ IntegersOnly(node.condition)
             /\ IntegersOnly(node.then_branch)
             /\ \A i \in 1..Len(node.else_branch) : IntegersOnly(node.else_branch[i])
      [] node.e = "Block" -> \A i \in 1..Len(node.statements) : IntegersOnly(node.statements[i])

\* C26: the code generator resolves names over one flat name space.  Between
\* statements and on success the defined names are the identifiers of all
\* `let` declarations of the statements compiled so far, wherever they sit.
\* The first read of or assignment to a name not yet defined, in traversal
\* order, fails with UndefinedVariable of that name, the defined names being
\* those of the `let`s completed before it (a `let` whose value fails adds
\* nothing); a program without such a name does not fail with
\* UndefinedVariable.
C26_FlatNameSpace ==
    program # <<>> =>
        LET statements == program[1]
            r == ResolveAll(statements, 1, {})
        IN  /\ compileOut.st \in {"None", "Ok"} =>
                   DOMAIN variables = LetNamesOfAll(SubSeq(statements, 1, compiled))
            /\ compileOut.st = "Ok" => (compiled = Len(statements) /\ r.missing = <<>>)
            /\ (compileOut.st = "Err" /\ compileOut.err.code = "UndefinedVariable") =>
                   /\ r.missing = <<compileOut.err.a>>
                   /\ DOMAIN variables = r.defined
            /\ (compileOut.st # "None" /\ r.missing # <<>>
                    /\ \A i \in 1..Len(statements) : IntegersOnly(statements[i])) =>
                   compileOut = [st |-> "Err", err |-> UndefinedVariable(r.missing[1])]

\* `let x = x`: the name is read before it is defined, and stays undefined
C26_Witness ==
    /\ input = Source(<<"let", "x", "=", "x">>)
    /\ compileOut = [st |-> "Err", err |-> UndefinedVariable(<<"x">>)]
    /\ DOMAIN variables = {}

\* a name declared in a then-branch is assigned in the else-branch and read
\* in a later block
C26_BranchWitness ==
    /\ input = Source(<<"let", "a", "=", "1", ";",
                        "if", "a", "{", "let", "c", "=", "1", "}",
                        "else", "{", "c", "=", "2", "}", ";",
                        "{", "let", "d", "=", "c", ";", "d", "}">>)
    /\ compileOut.st = "Ok"
    /\ DOMAIN variables = {<<"a">>, <<"c">>, <<"d">>}

\* `c = - 's'` with no `c`: the value is refused before the name is looked up
C26_ValueFirstWitness ==
    /\ input = Source(<<"c", "=", "-", "'s'">>)
    /\ compileOut = [st |-> "Err", err |-> OperatorNotSupported("Minus")]

\* assigning to a name that no `let` has defined
C26_AssignWitness ==
    /\ input = Source(<<"let", "a", "=", "1", ";", "a", "=", "b">>)
    /\ compileOut = [st |-> "Err", err |-> UndefinedVariable(<<"b">>)]
    /\ DOMAIN variables = {<<"a">>}

\* the token a form begins with
FormToken(form) == IF form[1] = "if" THEN Tok("KeywordIf") ELSE Tok("KeywordPrint")

\* the form is whole: it parses when it stands alone
WholeForm(form) == Len(form) > 1

\* the node of a whole form parsed on its own
FormTree(form) == call("expression", parser(TokensOf(form)), 0).val

\* the statements a site gives around the node of the form it holds
SiteTrees(site, tree) ==
    CASE site.open = <<>> -> <<tree>>
      [] site.open = <<"y", ";">> ->
             <<ValueTree(<<"y">>), tree, ValueTree(<<"z">>)>>
      [] site.open = <<"(">> -> <<tree>>
      [] site.open = <<"(", "(">> -> <<tree>>
      [] site.open = <<"if">> -> <<IfElse(tree, Block(<<>>), <<>>)>>
      [] site.open = <<"{">> -> <<Block(<<tree>>)>>
      [] site.open = <<"if", "c", "{">> ->
             <<IfElse(ValueTree(<<"c">>), Block(<<tree>>), <<>>)>>

\* C27: an `if` or `print` token where a value or an operand is read (after
\* the "=" of a `let` or an assignment, after a unary or a binary operator)
\* makes parse() fail with UnexpectedToken naming the keyword, whatever
\* follows it; at the start of a statement, directly inside parentheses and
\* as the condition of an `if` the whole form is read and gives its node.
C27_FormsOnlyInExpression ==
    Parsed =>
        /\ \A pre \in OperandPrefixes, form \in FormPhrases, rest \in FormRests :
               input = Source(pre \o form \o rest) =>
                   (parseOut.st # "None" => FailsWith(UnexpectedToken(FormToken(form))))
        /\ \A site \in FormSites, form \in FormPhrases :
               (input = Source(site.open \o form \o site.close) /\ WholeForm(form)) =>
                   (parseOut.st # "None" =>
                        parseOut = [st |-> "Ok", statements |-> SiteTrees(site, FormTree(form)),
                                    err |-> NoError])

\* `let x = if c { } else { }` fails at the `if`
C27_Witness ==
    /\ input = Source(<<"let", "x", "=", "if", "c", "{", "}", "else", "{", "}">>)
    /\ FailsWith(UnexpectedToken(Tok("KeywordIf")))

\* `1 + if c { }` fails at the `if`
C27_OperandWitness ==
    /\ input = Source(<<"1", "+", "if", "c", "{", "}">>)
    /\ FailsWith(UnexpectedToken(Tok("KeywordIf")))

\* `x = print ( 's' )` fails at the `print`
C27_PrintWitness ==
    /\ input = Source(<<"x", "=", "print", "(", "'s'", ")">>)
    /\ FailsWith(UnexpectedToken(Tok("KeywordPrint")))

\* `( if c { } )` is read: the form stands directly inside parentheses
C27_ParenthesisedWitness ==
    /\ Parsed
    /\ input = Source(<<"(", "if", "c", "{", "}", ")">>)
    /\ ParsesTo(IfElse(Leaf(3), Block(<<>>), <<>>))

\* `if print ( 's' ) { }` is read: the form is the condition of an `if`
C27_ConditionWitness ==
    /\ Parsed
    /\ input = Source(<<"if", "print", "(", "'s'", ")", "{", "}">>)
    /\ ParsesTo(IfElse(PrintExpr(Leaf(4)), Block(<<>>), <<>>))

\* the node an expression gives when parsed on its own, without parentheses
AloneTree(ws) == call("expression", parser(TokensOf(ws)), 0).val

\* the BinaryOp of an operator written as a word
OperatorOfWord(op) == OperatorOf(TokensOf(<<op>>)[1].k)

\* C28: parentheses leave no node.  `( e )`, however deep, parses to the
\* tree of `e` alone; as an operand `( e )` stands for the node of `e`, so
\* `(a + b) * c` is Multiply over an Add; and a parenthesised name before
\* "=" is an assignment target like the bare name, while a parenthesised
\* expression that is no name is refused like the bare one.
C28_ParenthesesLeaveNoNode ==
    Parsed =>
        /\ \A e \in GroupedPhrases, n \in 0..MaxParens :
               input = Source(Parenthesised(e, n)) => ParsesTo(AloneTree(e))
        /\ \A e \in GroupedPhrases, op \in BinaryWords, r \in PlainOperands :
               /\ input = Source(Parenthesised(e, 1) \o <<op>> \o r) =>
                      ParsesTo(Binary(AloneTree(e), OperatorOfWord(op), AloneTree(r)))
               /\ input = Source(r \o <<op>> \o Parenthesised(e, 1)) =>
                      ParsesTo(Binary(AloneTree(r), OperatorOfWord(op), AloneTree(e)))
        /\ \A t \in TargetPhrases, n \in 1..MaxParens, v \in TargetValues :
               input = Source(Parenthesised(t, n) \o <<"=">> \o v) =>
                   IF t = <<"x">>
                   THEN ParsesTo(Assignment(Spell("x"), AloneTree(v)))
                   ELSE FailsWith(InvalidAssignment("target must be an identifier"))

\* `( x ) = 1` gave the Assignment node of `x = 1`
C28_Witness ==
    /\ Parsed
    /\ input = Source(<<"(", "x", ")", "=", "1">>)
    /\ ParsesTo(Assignment(Spell("x"), Leaf(5)))
    /\ parseOut = ParseOf(<<"x", "=", "1">>)

\* `( a + b ) * c` gave Multiply with an Add left child
C28_ProductWitness ==
    /\ Parsed
    /\ input = Source(<<"(", "a", "+", "b", ")", "*", "c">>)
    /\ ParsesTo(Binary(Binary(Leaf(2), "Add", Leaf(4)), "Multiply", Leaf(7)))

\* `( ( a + b ) )` gave the tree of `a + b`
C28_NestedWitness ==
    /\ Parsed
    /\ input = Source(<<"(", "(", "a", "+", "b", ")", ")">>)
    /\ ParsesTo(Binary(Leaf(3), "Add", Leaf(5)))

\* `( a + b ) = 1` is refused: the node is no identifier
C28_RefusedWitness ==
    /\ Parsed
    /\ input = Source(<<"(", "a", "+", "b", ")", "=", "1">>)
    /\ FailsWith(InvalidAssignment("target must be an identifier"))

\* the token of the literal n: an Integer of its value when the value fits
\* i64, a Float otherwise
IsNumeralToken(tok, n) ==
    IF n.fits THEN tok = TokS("Integer", n.value) ELSE tok.k = "Float"

\* C29: an all-digit literal whose value does not fit i64 is neither
\* rejected nor wrapped: Parser::new succeeds and holds a Float token for it,
\* and parse() gives a Float leaf; a literal within range gives an Integer
\* token with the literal's value and an Integer leaf.
C29_IntegerLiteralRange ==
    newOut.st # "None" =>
        \A n \in BoundaryNumerals, c \in NumeralContexts :
            input = c.pre \o n.ds \o c.post =>
                /\ newOut.st = "Ok"
                /\ Len(tokens) = c.before + 1 + c.after
                /\ LET at == c.before + 1
                   IN  /\ IsNumeralToken(tokens[at], n)
                       /\ (c.pre = <<>> /\ c.post = <<>> /\ calls = 1) =>
                              ParsesTo(Literal(IF n.fits THEN "Integer" ELSE "Float", tokens[at]))
                       /\ (c.pre = <<"-">> /\ calls = 1) =>
                              ParsesTo(Unary("Minus",
                                             Literal(IF n.fits THEN "Integer" ELSE "Float",
                                                     tokens[at])))

\* 9223372036854775808 = i64::MAX + 1 gave a Float token and a Float leaf
C29_Witness ==
    /\ Parsed
    /\ input = SubSeq(I64MaxDigits, 1, 18) \o <<"8">>
    /\ Len(tokens) = 1
    /\ tokens[1].k = "Float"
    /\ ParsesTo(Literal("Float", tokens[1]))

\* 9223372036854775807 = i64::MAX gave an Integer token of that value
C29_MaxWitness ==
    /\ Parsed
    /\ input = I64MaxDigits
    /\ tokens = <<TokS("Integer", I64MaxDigits)>>
    /\ ParsesTo(Literal("Integer", tokens[1]))

\* 09223372036854775807: a zero before i64::MAX leaves the value in range
C29_LeadingZeroWitness ==
    /\ Parsed
    /\ input = <<"0">> \o I64MaxDigits
    /\ tokens = <<TokS("Integer", I64MaxDigits)>>

\* -9223372036854775808: the literal of i64::MIN is a Minus over a Float
C29_MinWitness ==
    /\ Parsed
    /\ input = <<"-">> \o SubSeq(I64MaxDigits, 1, 18) \o <<"8">>
    /\ Len(tokens) = 2
    /\ tokens[2].k = "Float"
    /\ ParsesTo(Unary("Minus", Literal("Float", tokens[2])))

\* C30: parse() consumes the parser.  A successful parse() leaves the cursor
\* at tokens.len(), and every further call returns Ok with no statements; a
\* failed parse() leaves the cursor where the failure was met, and the next
\* call parses what stands after it: its result is that of a fresh parse of
\* the unread tail.
C30_ParseConsumes ==
    /\ (calls >= 1 /\ parseOut.st = "Ok") => current = Len(tokens)
    /\ \A ws \in WholePrograms :
           input = Source(ws) =>
               /\ calls = 1 => (parseOut.st = "Ok" /\ parseOut = ParseOf(ws))
               /\ calls > 1 => parseOut = [st |-> "Ok", statements |-> <<>>, err |-> NoError]
    /\ \A c \in ResumeCases :
           input = Source(c.head \o c.tail) =>
               /\ calls = 1 => (parseOut.st = "Err" /\ current = Len(TokensOf(c.head)))
               /\ calls = 2 => parseOut = ParseOf(c.tail)

\* `x ; y` was parsed twice: the second call gave Ok with no statements
C30_Witness ==
    /\ calls = 2
    /\ input = Source(<<"x", ";", "y">>)
    /\ current = 3
    /\ parseOut = [st |-> "Ok", statements |-> <<>>, err |-> NoError]

\* `x ; y` parsed once: two statements and the cursor at the end
C30_FirstCallWitness ==
    /\ calls = 1
    /\ input = Source(<<"x", ";", "y">>)
    /\ current = 3
    /\ parseOut.st = "Ok" /\ Len(parseOut.statements) = 2

\* `let 1 ; x` failed after `let`; the second call gave the statements 1 and x
C30_ResumeWitness ==
    /\ calls = 2
    /\ input = Source(<<"let", "1", ";", "x">>)
    /\ current = 4
    /\ parseOut = [st |-> "Ok", statements |-> <<Leaf(2), Leaf(4)>>, err |-> NoError]

\* `x = = y` failed at the second "="; the second call fails there again
C30_StuckWitness ==
    /\ calls = 2
    /\ input = Source(<<"x", "=", "=", "y">>)
    /\ current = 2
    /\ FailsWith(UnexpectedToken(Tok("Equals")))

====
